---- MODULE Spec2Model ----
(***************************************************************************)
(* Model of DagForgeEngage: the real-time layer of server/routes.ts (the   *)
(* wsClients registry, the room and user broadcasters, the per-connection  *)
(* message router and the heartbeat/lifecycle handlers), its HTTP request  *)
(* handlers over MemStorage, and the client hook useWebSocket.             *)
(***************************************************************************)
EXTENDS Integers, Sequences, FiniteSets, TLC

\* ------------------------------------------------------------------ bounds
\* longest queue of snapshot promises (storage.getX().then(...)) not yet run
MaxPending == 1

\* ------------------------------------------------------------- input sets
Conns == {"c1", "c2"}
Users == {"u1", "u2"}
None == "none"
NoRoom == "noroom"
NoToken == "notoken"
SnapshotRooms == {"leaderboard", "markets", "tasks"}
Rooms == SnapshotRooms \cup {"user_updates"}
Tokens == {"tok_u1", "tok_u2", "forged"}

\* the (room, frame type) pairs of the broadcastToRoom call sites
RoomCallSites ==
  { <<"markets", "market_update">>, <<"markets", "price_update">>,
    <<"tasks", "task_update">>, <<"leaderboard", "leaderboard_update">> }
\* the frame types of the broadcastToUser call sites
UserFrameTypes == {"user_stats_update", "user_task_update"}

\* inbound text frames: parses says whether JSON.parse succeeds
RawMessages ==
  {[parses |-> FALSE, type |-> "", room |-> NoRoom, token |-> NoToken]}
  \cup {[parses |-> TRUE, type |-> "join_room", room |-> r, token |-> NoToken] :
          r \in Rooms \cup {NoRoom}}
  \cup {[parses |-> TRUE, type |-> "ping", room |-> NoRoom, token |-> NoToken]}
  \cup {[parses |-> TRUE, type |-> "authenticate", room |-> NoRoom, token |-> t] :
          t \in Tokens \cup {NoToken}}
  \cup {[parses |-> TRUE, type |-> "subscribe", room |-> NoRoom, token |-> NoToken]}

VARIABLES
  readyState,   \* ws.readyState of each connection ("NONE" before it is opened)
  wsClients,    \* keys of the wsClients map
  rooms,        \* client.rooms
  userId,       \* client.userId (None while undefined)
  interval,     \* TRUE while the connection's setInterval timer is active
  pending,      \* snapshot promises whose .then callback has not run yet
  sentNow,      \* frames passed to ws.send by the last step, per connection
  lastOp,       \* history: the event handled by the last step
  prev,         \* history: the entry of lastOp.conn as it was before that step
  requested,    \* history: room names carried by the join_room messages so far
  ended         \* history: connections that have emitted 'close' or 'error'

\* MemStorage (its Maps, in insertion order) and the HTTP requests in flight
VARIABLES
  users,              \* MemStorage.users
  predictionMarkets,  \* MemStorage.predictionMarkets
  predictions,        \* MemStorage.predictions
  tasks,              \* MemStorage.tasks
  userTasks,          \* MemStorage.userTasks
  rewards,            \* MemStorage.rewards
  reqs,               \* per slot: the request handler running there and its locals
  jobs,               \* the microtask queue: slots whose awaited promise resolved
  started             \* number of requests accepted so far

\* the client hook useWebSocket (client/src/hooks/use-websocket.tsx)
VARIABLES
  reconnectAttempts,    \* the React state reconnectAttempts
  isConnected,          \* the React state isConnected
  socketRef,            \* state of socketRef.current ("none" before connect)
  seenAttempts,         \* reconnectAttempts as closed over by that socket's handlers
  reconnectTimeoutRef,  \* TRUE while the reconnect timeout is pending
  closes,               \* history: closes since the last open
  hookOp                \* history: the hook event handled by the last step

hookVars == <<reconnectAttempts, isConnected, socketRef, seenAttempts,
              reconnectTimeoutRef, closes, hookOp>>

storeVars == <<users, predictionMarkets, predictions, tasks, userTasks, rewards,
               reqs, jobs, started>>

vars == <<readyState, wsClients, rooms, userId, interval, pending, sentNow,
          lastOp, prev, requested, ended, storeVars, hookVars>>

Frame(t, u) == [type |-> t, user |-> u]

\* the shape of the registry and of its WebSocketClient entries
TypeOK ==
  /\ readyState \in [Conns -> {"NONE", "OPEN", "CLOSING", "CLOSED"}]
  /\ wsClients \subseteq Conns
  /\ rooms \in [Conns -> SUBSET Rooms]
  /\ userId \in [Conns -> Users \cup {None}]
  /\ interval \in [Conns -> BOOLEAN]
  /\ \A i \in 1..Len(pending) :
       pending[i].conn \in Conns /\ pending[i].room \in SnapshotRooms
  /\ \A c \in Conns : Len(sentNow[c]) <= 1
NoFrames == [c \in Conns |-> <<>>]
NoMsg == [parses |-> FALSE, type |-> "", room |-> NoRoom, token |-> NoToken]
\* an event on connection c (msg: the inbound frame of a 'message' event)
Op(o, c, m) == [op |-> o, conn |-> c, msg |-> m, target |-> None, frame |-> None]
\* a broadcast call: target is the room or the user, frame the frame type
Call(o, target, t) == [op |-> o, conn |-> None, msg |-> NoMsg, target |-> target, frame |-> t]
NoPrev == [rooms |-> {}, userId |-> None, registered |-> FALSE, interval |-> FALSE]

\* jwt.verify(token, JWT_SECRET): the userId of the payload, None when it throws
jwtVerify(t) ==
  CASE t = "tok_u1" -> "u1"
    [] t = "tok_u2" -> "u2"
    [] OTHER -> None

\* ------------------------------------------------------ JavaScript values
\* Numbers are IEEE doubles, computed bit for bit.
\* A natural number is eight limbs of 15 bits, least significant first
Limbs == 1..8
Base == 2^15
Limb(a, i) == IF i \in Limbs THEN a[i] ELSE 0
Natural(n) == <<n % Base, n \div Base, 0, 0, 0, 0, 0, 0>>
ToInt(a) == a[1] + a[2] * Base

RECURSIVE AddFrom(_, _, _, _)
AddFrom(a, b, i, carry) ==
  IF i \notin Limbs THEN <<>>
  ELSE LET sum == a[i] + b[i] + carry
       IN  <<sum % Base>> \o AddFrom(a, b, i + 1, sum \div Base)
Add(a, b) == AddFrom(a, b, 1, 0)

RECURSIVE SubFrom(_, _, _, _)
SubFrom(a, b, i, borrow) ==
  IF i \notin Limbs THEN <<>>
  ELSE LET diff == a[i] - b[i] - borrow
       IN  <<(diff + Base) % Base>> \o SubFrom(a, b, i + 1, IF diff < 0 THEN 1 ELSE 0)
Sub(a, b) == SubFrom(a, b, 1, 0)

Less(a, b) == \E i \in Limbs : a[i] < b[i] /\ \A j \in Limbs : j > i => a[j] = b[j]

RECURSIVE TimesFrom(_, _, _, _)
TimesFrom(a, n, i, carry) ==
  IF i \notin Limbs THEN <<>>
  ELSE LET product == a[i] * n + carry
       IN  <<product % Base>> \o TimesFrom(a, n, i + 1, product \div Base)
Times(a, n) == TimesFrom(a, n, 1, 0)

ShiftLeft(a, k) ==
  LET q == k \div 15
      r == k % 15
      L(i) == ((Limb(a, i - q) * 2^r) % Base) + (Limb(a, i - q - 1) \div 2^(15 - r))
  IN  <<L(1), L(2), L(3), L(4), L(5), L(6), L(7), L(8)>>
ShiftRight(a, k) ==
  LET q == k \div 15
      r == k % 15
      L(i) == (Limb(a, i + q) \div 2^r) + ((Limb(a, i + q + 1) % 2^r) * 2^(15 - r))
  IN  <<L(1), L(2), L(3), L(4), L(5), L(6), L(7), L(8)>>
Bit(a, n) == (Limb(a, n \div 15 + 1) \div 2^(n % 15)) % 2
BitLength(a) ==
  IF \A i \in Limbs : a[i] = 0 THEN 0
  ELSE LET top == CHOOSE i \in Limbs : a[i] # 0 /\ \A j \in Limbs : j > i => a[j] = 0
       IN  15 * (top - 1) + (CHOOSE k \in 1..15 : 2^(k - 1) <= a[top] /\ a[top] < 2^k)

\* A finite double >= 0 is m * 2^e with m of 53 bits (m = 0, e = 0 for zero)
Zero == [k |-> "number", m |-> Natural(0), e |-> 0]
\* Bind(value, F) is F(value) with the value computed once
Bind(value, F(_)) == CHOOSE r \in {F(v) : v \in {value}} : TRUE
\* n * 2^e (plus a little when sticky), rounded to nearest, ties to even
RoundValue(n, e, sticky) ==
  Bind(BitLength(n), LAMBDA len :
    IF len = 0 THEN Zero
    ELSE IF len <= 53
    THEN [k |-> "number", m |-> ShiftLeft(n, 53 - len), e |-> e - (53 - len)]
    ELSE Bind(ShiftRight(n, len - 53), LAMBDA q :
           Bind(IF Bit(n, len - 54) = 1
                   /\ (sticky \/ ShiftLeft(ShiftRight(n, len - 54), len - 54) # n
                       \/ Bit(q, 0) = 1)
                THEN Add(q, Natural(1)) ELSE q, LAMBDA m :
             IF BitLength(m) = 54
             THEN [k |-> "number", m |-> ShiftRight(m, 1), e |-> e + len - 52]
             ELSE [k |-> "number", m |-> m, e |-> e + len - 53])))
Round(n, e, sticky) == Bind(n, LAMBDA v : RoundValue(v, e, sticky))
Double(n) == Round(Natural(n), 0, FALSE)
IsZero(x) == x.m = Natural(0)
Min(a, b) == IF a < b THEN a ELSE b
fless(x, y) ==
  \E a \in {x}, b \in {y} :
    IF IsZero(b) THEN FALSE
    ELSE IF IsZero(a) THEN TRUE
    ELSE IF a.e # b.e THEN a.e < b.e ELSE Less(a.m, b.m)
faddValue(x, y) ==
  IF IsZero(x) THEN y ELSE IF IsZero(y) THEN x
  ELSE IF x.e - y.e > 60 THEN x ELSE IF y.e - x.e > 60 THEN y
  ELSE Round(Add(ShiftLeft(x.m, x.e - Min(x.e, y.e)), ShiftLeft(y.m, y.e - Min(x.e, y.e))),
             Min(x.e, y.e), FALSE)
fadd(x, y) == CHOOSE r \in {faddValue(a, b) : a \in {x}, b \in {y}} : TRUE
\* x - y for x >= y
fsubValue(x, y) ==
  IF IsZero(y) THEN x
  ELSE IF x.e - y.e > 60 THEN x
  ELSE Round(Sub(ShiftLeft(x.m, x.e - Min(x.e, y.e)), ShiftLeft(y.m, y.e - Min(x.e, y.e))),
             Min(x.e, y.e), FALSE)
fsub(x, y) == CHOOSE r \in {fsubValue(a, b) : a \in {x}, b \in {y}} : TRUE
\* Long division on halves of 27 bits, <<high, low>>: one more bit of the
\* quotient q of (r * 2^n) by d, for r < d < 2^53
Half == 2^27
Halves(a) == <<a[2] \div 2^12 + a[3] * 2^3 + a[4] * 2^18, a[1] + (a[2] % 2^12) * 2^15>>
Whole(h) == Add(ShiftLeft(Natural(h[1]), 27), Natural(h[2]))
DivideStep(q, r, d) ==
  LET rh == 2 * r[1] + r[2] \div 2^26
      rl == (2 * r[2]) % Half
      fits == ~(rh < d[1] \/ (rh = d[1] /\ rl < d[2]))
      borrow == IF rl < d[2] THEN 1 ELSE 0
      ql == 2 * q[2] + (IF fits THEN 1 ELSE 0)
  IN  <<<<2 * q[1] + ql \div Half, ql % Half>>,
        IF fits THEN <<rh - d[1] - borrow, (rl - d[2] + Half) % Half>> ELSE <<rh, rl>>>>
RECURSIVE Divide(_, _, _)
Divide(qr, d, n) ==
  IF n = 0 THEN qr
  ELSE CHOOSE out \in {Divide(next, d, n - 1) : next \in {DivideStep(qr[1], qr[2], d)}} : TRUE
fdivValue(x, y) ==
  IF IsZero(x) THEN Zero
  ELSE LET first == ~Less(x.m, y.m)
       IN  \* the quotient has 56 or 57 bits
           CHOOSE out \in
             {Round(Whole(qr[1]), x.e - y.e - 56, qr[2] # <<0, 0>>) :
                qr \in {Divide(<<<<0, IF first THEN 1 ELSE 0>>,
                                 Halves(IF first THEN Sub(x.m, y.m) ELSE x.m)>>,
                               Halves(y.m), 56)}} : TRUE
fdiv(x, y) == CHOOSE r \in {fdivValue(a, b) : a \in {x}, b \in {y}} : TRUE
ftimes(x, n) == CHOOSE r \in {Round(Times(a.m, n), a.e, FALSE) : a \in {x}} : TRUE
\* the integer nearest to x * 100, the larger one on a tie
HundredthsValue(x) ==
  IF x.e >= 0 THEN ToInt(ShiftLeft(Times(x.m, 100), x.e))
  ELSE ToInt(ShiftRight(Add(Times(x.m, 100), ShiftLeft(Natural(1), -x.e - 1)), -x.e))
Hundredths(x) == CHOOSE r \in {HundredthsValue(a) : a \in {x}} : TRUE

\* the number n, NaN and undefined
Num(n) == Double(n)
NaN == [k |-> "NaN", m |-> Natural(0), e |-> 0]
Undefined == [k |-> "undefined", m |-> Natural(0), e |-> 0]
\* A numeric string is held as the double it parses to: Str(n, d) is the
\* decimal literal n / 10^d ("0.1" is Str(1, 1)), and Number.prototype.toString
\* gives the shortest literal that parses back to the same double
Str(n, d) ==
  Bind(fdiv(Double(n), Double(10^d)), LAMBDA x : [k |-> "string", m |-> x.m, e |-> x.e])
StrNaN == [k |-> "string NaN", m |-> Natural(0), e |-> 0]
\* the output of toFixed(2): h hundredths, always with two decimals
Fixed2(h) == [k |-> "fixed", m |-> Natural(h), e |-> -2]

\* parseFloat: NaN for undefined and for "NaN"
\* A number below zero is held as its magnitude under the kind "negative",
\* its string under "negative string"
Negative(x) == [k |-> "negative", m |-> x.m, e |-> x.e]
Magnitude(x) == [k |-> "number", m |-> x.m, e |-> x.e]
IsNumber(x) == x.k \in {"number", "negative"}
parseFloat(x) ==
  IF x.k = "string" THEN [k |-> "number", m |-> x.m, e |-> x.e]
  ELSE IF x.k = "negative string" THEN [k |-> "negative", m |-> x.m, e |-> x.e]
  ELSE IF x.k = "fixed" THEN fdiv(Double(ToInt(x.m)), Double(100))
  ELSE NaN
toString(x) ==
  IF x.k = "number" THEN [k |-> "string", m |-> x.m, e |-> x.e]
  ELSE IF x.k = "negative" THEN [k |-> "negative string", m |-> x.m, e |-> x.e]
  ELSE StrNaN
\* p - n for p, n >= 0
Difference(p, n) == IF fless(p, n) THEN Negative(fsub(n, p)) ELSE fsub(p, n)
\* a + b and a - b (an undefined or NaN operand gives NaN)
PlusValue(a, b) ==
  IF ~(IsNumber(a) /\ IsNumber(b)) THEN NaN
  ELSE IF a.k = "number" /\ b.k = "number" THEN fadd(a, b)
  ELSE IF a.k = "number" THEN Difference(a, Magnitude(b))
  ELSE IF b.k = "number" THEN Difference(b, Magnitude(a))
  ELSE Negative(fadd(Magnitude(a), Magnitude(b)))
Plus(a, b) == Bind(a, LAMBDA x : Bind(b, LAMBDA y : PlusValue(x, y)))
MinusValue(a, b) ==
  IF ~(IsNumber(a) /\ IsNumber(b)) THEN NaN
  ELSE IF a.k = "number" /\ b.k = "number" THEN Difference(a, b)
  ELSE IF a.k = "number" THEN fadd(a, Magnitude(b))
  ELSE IF b.k = "number" THEN Negative(fadd(Magnitude(a), b))
  ELSE Difference(Magnitude(b), Magnitude(a))
Minus(a, b) == Bind(a, LAMBDA x : Bind(b, LAMBDA y : MinusValue(x, y)))
\* a < b and a >= b: false as soon as one side is NaN
LessThanValue(a, b) ==
  /\ IsNumber(a) /\ IsNumber(b)
  /\ IF a.k = "number" /\ b.k = "number" THEN fless(a, b)
     ELSE IF a.k = "number" THEN FALSE
     ELSE IF b.k = "number" THEN TRUE
     ELSE fless(Magnitude(b), Magnitude(a))
LessThan(a, b) == Bind(a, LAMBDA x : Bind(b, LAMBDA y : LessThanValue(x, y)))
AtLeast(a, b) ==
  Bind(a, LAMBDA x : Bind(b, LAMBDA y :
    IsNumber(x) /\ IsNumber(y) /\ ~LessThanValue(x, y)))
\* ((amount / totalPool) * 100).toFixed(2)
toFixed2(amount, totalPool) == Fixed2(Hundredths(ftimes(fdiv(amount, totalPool), 100)))

\* {...record, ...updates}
\* fault: a merge that keeps the stored value of every field it already has
MergeKept(record, updates) == record @@ updates
Merge(record, updates) == updates @@ record
\* the entries of a Map (kept in insertion order) that satisfy Test
Filter(map, Test(_)) == SelectSeq(map, Test)
\* Map.set on an existing key keeps the entry's position
SetAt(map, id, record) ==
  [i \in 1..Len(map) |-> IF map[i].id = id THEN record ELSE map[i]]

\* --------------------------------------------------------------- MemStorage
\* ids: users carry their name; every other record carries its position in
\* its Map (market 1 is "market-1", task 1 is "task-1", later ids are UUIDs)
NoRole == "undefined"
Roles == {"basic", "premium", "validator"}

\* the sample records of MemStorage.initializeData
\* (an email address is held as its local part)
sampleUser ==
  [id |-> "user-1", email |-> "cryptodev", role |-> "validator", xp |-> Num(9847),
   weeklyXp |-> Num(1247), bdagBalance |-> Str(25847, 0), walletAddress |-> "0x742d"]
sampleMarket ==
  [id |-> 1, totalPool |-> Str(12500, 0), participantCount |-> Num(1247),
   yesPercentage |-> Fixed2(6700), noPercentage |-> Fixed2(3300)]
sampleTask ==
  [id |-> 1, xpReward |-> Num(300), bdagReward |-> Str(100, 0),
   hasRequirements |-> TRUE,
   requirements |-> <<"Connect wallet", "Deploy contract", "Verify deployment">>]

initializeData ==
  /\ users = <<sampleUser>>
  /\ predictionMarkets = <<sampleMarket>>
  /\ predictions = <<>>
  /\ tasks = <<sampleTask>>
  /\ userTasks = <<>>
  /\ rewards = <<>>

\* Every storage method returns at once; what it found is a sequence of at
\* most one record (<<>> for undefined), what it wrote is the new Map.
getUser(id) == Filter(users, LAMBDA u : u.id = id)

\* createUser: {...insertUser, id, createdAt, lastActive}; a field the request
\* body left out stays undefined, the column defaults of the schema are not
\* applied
createUser(insertUser) ==
  Append(users, Merge(insertUser, [id |-> ToString(Len(users) + 1)]))

\* Array.find: the first user with that email
getUserByEmail(email) ==
  LET found == Filter(users, LAMBDA u : u.email = email)
  IN  IF found = <<>> THEN <<>> ELSE <<found[1]>>

\* updateUser throws "User not found" when getUser(id) is empty
updateUser(id, updates) == SetAt(users, id, Merge(getUser(id)[1], updates))

\* the comparator of getLeaderboard: the sign of b.weeklyXp - a.weeklyXp,
\* 0 when the difference is NaN
compareWeeklyXp(a, b) ==
  IF LessThan(b.weeklyXp, a.weeklyXp) THEN -1
  ELSE IF LessThan(a.weeklyXp, b.weeklyXp) THEN 1 ELSE 0

\* Array.prototype.sort with that comparator: stable; a comparator result of
\* NaN counts as 0, so an element moves left only past those it compares below
RECURSIVE InsertSorted(_, _)
InsertSorted(sorted, x) ==
  IF sorted # <<>> /\ compareWeeklyXp(x, sorted[Len(sorted)]) < 0
  THEN Append(InsertSorted(SubSeq(sorted, 1, Len(sorted) - 1), x),
              sorted[Len(sorted)])
  ELSE Append(sorted, x)

RECURSIVE Sort(_)
Sort(list) ==
  IF list = <<>> THEN <<>>
  ELSE InsertSorted(Sort(SubSeq(list, 1, Len(list) - 1)), list[Len(list)])

\* slice(0, limit) for limit >= 0
Slice(list, limit) ==
  SubSeq(list, 1, IF limit < Len(list) THEN limit ELSE Len(list))

getLeaderboard(limit) == Slice(Sort(users), limit)

getPredictionMarket(id) == Filter(predictionMarkets, LAMBDA m : m.id = id)

createPredictionMarket(insertMarket) ==
  Append(predictionMarkets,
         [id |-> Len(predictionMarkets) + 1, totalPool |-> Str(0, 0),
          participantCount |-> Num(0),
          yesPercentage |-> Fixed2(5000), noPercentage |-> Fixed2(5000)])

updatePredictionMarket(id, updates) ==
  SetAt(predictionMarkets, id, Merge(getPredictionMarket(id)[1], updates))

createPrediction(insertPrediction) ==
  Append(predictions, Merge(insertPrediction, [id |-> Len(predictions) + 1]))

getPredictionsByMarket(marketId) ==
  Filter(predictions, LAMBDA p : p.marketId = marketId)

getTask(id) == Filter(tasks, LAMBDA t : t.id = id)

createTask(insertTask) == Append(tasks, Merge(insertTask, [id |-> Len(tasks) + 1]))

\* fault: the user tasks of every user
getUserTasksOfAll(u) == userTasks
getUserTasks(u) == Filter(userTasks, LAMBDA ut : ut.userId = u)

\* Array.find: the first match
getUserTask(u, taskId) ==
  LET found == Filter(userTasks, LAMBDA ut : ut.userId = u /\ ut.taskId = taskId)
  IN  IF found = <<>> THEN <<>> ELSE <<found[1]>>

\* {...insertUserTask, id, createdAt, completedAt: null}
createUserTask(insertUserTask) ==
  Append(userTasks, Merge(insertUserTask,
                          [id |-> Len(userTasks) + 1, completedAt |-> "null"]))

updateUserTask(id, updates) ==
  SetAt(userTasks, id,
        Merge(Filter(userTasks, LAMBDA ut : ut.id = id)[1], updates))

createReward(insertReward) ==
  Append(rewards, Merge(insertReward, [id |-> Len(rewards) + 1]))

\* ----------------------------------------------------------- HTTP requests
\* A handler runs until its next await; the awaited storage promise is already
\* resolved, so the rest of the handler is queued as a microtask.  Requests
\* read off the same socket chunk start back to back before the microtask
\* queue is drained; the queue is then drained first in, first out.
Slots == {"r1", "r2"}

\* the payload of a verified bearer token: jwt.sign({userId, role})
Token(u, role) == [userId |-> u, role |-> role]

\* request parameters and body; valid: the body passes the route's zod schema
NoArg ==
  [valid |-> TRUE, marketId |-> 0, prediction |-> TRUE, amount |-> Undefined,
   taskId |-> 0, userTaskId |-> 0, progress |-> Undefined, email |-> ""]

\* a handler's local constants, each <<>> until assigned
NoLoc ==
  [user |-> <<>>, updatedUser |-> <<>>, market |-> <<>>, predictions |-> <<>>,
   updatedMarket |-> <<>>, task |-> <<>>, userTask |-> <<>>, list |-> <<>>,
   leaderboard |-> <<>>, threw |-> FALSE]

NoStores ==
  [users |-> <<>>, predictionMarkets |-> <<>>, predictions |-> <<>>,
   tasks |-> <<>>, userTasks |-> <<>>, rewards |-> <<>>]

\* pc: the segment to run next (0 once the response is sent); ran: a microtask
\* of the request has run; alone: no other request was in flight with it;
\* pre: the stores as the request found them
Idle ==
  [kind |-> "none", tok |-> Token(None, NoRole), arg |-> NoArg, pc |-> 0,
   ran |-> FALSE, alone |-> TRUE, status |-> 0, message |-> "", loc |-> NoLoc,
   pre |-> NoStores]

NoRequests ==
  /\ reqs = [s \in Slots |-> Idle]
  /\ jobs = <<>>
  /\ started = 0

\* the hook after its first render, before its effect has run
Unmounted ==
  /\ reconnectAttempts = 0
  /\ isConnected = FALSE
  /\ socketRef = "none"
  /\ seenAttempts = 0
  /\ reconnectTimeoutRef = FALSE
  /\ closes = 0
  /\ hookOp = "render"

\* ------------------------------------------------------------ broadcasters
\* fault: the readyState test of broadcastToRoom dropped
broadcastToRoomAnyState(room, message) ==
  [c \in Conns |->
     IF c \in wsClients /\ room \in rooms[c] THEN <<message>> ELSE <<>>]

broadcastToRoom(room, message) ==
  [c \in Conns |->
     IF c \in wsClients /\ room \in rooms[c] /\ readyState[c] = "OPEN"
     THEN <<message>> ELSE <<>>]

\* fault: user frames fanned out to room "user_updates" instead of by identity
broadcastToUserByRoom(u, message) ==
  [c \in Conns |->
     IF c \in wsClients /\ "user_updates" \in rooms[c] /\ readyState[c] = "OPEN"
     THEN <<message>> ELSE <<>>]

\* fault: the readyState test of broadcastToUser dropped
broadcastToUserAnyState(u, message) ==
  [c \in Conns |-> IF c \in wsClients /\ userId[c] = u THEN <<message>> ELSE <<>>]

broadcastToUser(u, message) ==
  [c \in Conns |->
     IF c \in wsClients /\ userId[c] = u /\ readyState[c] = "OPEN"
     THEN <<message>> ELSE <<>>]

Init ==
  /\ readyState = [c \in Conns |-> "NONE"]
  /\ wsClients = {}
  /\ rooms = [c \in Conns |-> {}]
  /\ userId = [c \in Conns |-> None]
  /\ interval = [c \in Conns |-> FALSE]
  /\ pending = <<>>
  /\ sentNow = NoFrames
  /\ lastOp = Op("init", None, NoMsg)
  /\ prev = NoPrev
  /\ requested = [c \in Conns |-> {}]
  /\ ended = {}
  /\ initializeData
  /\ NoRequests
  /\ Unmounted

Before(c) ==
  [rooms |-> rooms[c], userId |-> userId[c], registered |-> c \in wsClients,
   interval |-> interval[c]]

\* wss.on('connection'): register the client and start its heartbeat timer
Connection(c) ==
  /\ readyState[c] = "NONE"
  /\ readyState' = [readyState EXCEPT ![c] = "OPEN"]
  /\ wsClients' = wsClients \cup {c}
  /\ rooms' = [rooms EXCEPT ![c] = {}]
  /\ userId' = [userId EXCEPT ![c] = None]
  /\ interval' = [interval EXCEPT ![c] = TRUE]
  /\ sentNow' = NoFrames
  /\ lastOp' = Op("connection", c, NoMsg)
  /\ prev' = Before(c)
  /\ UNCHANGED <<pending, requested, ended>>
  /\ UNCHANGED <<storeVars, hookVars>>

\* The snapshot query started by join_room for one of the three known rooms
snapshotType(room) ==
  CASE room = "leaderboard" -> "leaderboard_update"
    [] room = "markets" -> "market_update"
    [] room = "tasks" -> "task_update"
    [] OTHER -> None

\* fault: the membership is overwritten by the room joined last
joinRoomRoomsReplace(c, m) ==
  IF m.room # NoRoom THEN {m.room} ELSE rooms[c]

\* fault: the test for a room field dropped
joinRoomRoomsNoGuard(c, m) == rooms[c] \cup {m.room}

\* case 'join_room': add the room and start the snapshot query of a known room
joinRoomRooms(c, m) ==
  IF m.room # NoRoom THEN rooms[c] \cup {m.room} ELSE rooms[c]

joinRoomPending(c, m) ==
  IF m.room # NoRoom /\ snapshotType(m.room) # None
  THEN Append(pending, [conn |-> c, room |-> m.room])
  ELSE pending

\* fault: pong sent whatever the channel state
pingReplyUnguarded(c) == <<Frame("pong", None)>>

\* case 'ping': reply pong on an open channel
pingReply(c) ==
  IF readyState[c] = "OPEN" THEN <<Frame("pong", None)>> ELSE <<>>

\* fault (set-once): an identity already set is kept
authenticateUserIdOnce(c, m) ==
  IF userId[c] = None /\ m.token # NoToken /\ jwtVerify(m.token) # None
  THEN jwtVerify(m.token)
  ELSE userId[c]

\* fault: a token that fails verification clears the identity
authenticateUserIdClear(c, m) ==
  IF m.token # NoToken THEN jwtVerify(m.token) ELSE userId[c]

\* case 'authenticate': set client.userId from a token that verifies
authenticateUserId(c, m) ==
  IF m.token # NoToken /\ jwtVerify(m.token) # None
  THEN jwtVerify(m.token)
  ELSE userId[c]

\* ws.on('message'): parse the frame and dispatch on its type
Message(c, m) ==
  /\ readyState[c] \in {"OPEN", "CLOSING"}
  /\ Len(joinRoomPending(c, m)) <= MaxPending
  /\ rooms' = IF m.parses /\ m.type = "join_room"
              THEN [rooms EXCEPT ![c] = joinRoomRooms(c, m)] ELSE rooms
  /\ pending' = IF m.parses /\ m.type = "join_room"
                THEN joinRoomPending(c, m) ELSE pending
  /\ sentNow' = IF m.parses /\ m.type = "ping"
                THEN [NoFrames EXCEPT ![c] = pingReply(c)] ELSE NoFrames
  /\ userId' = IF m.parses /\ m.type = "authenticate"
               THEN [userId EXCEPT ![c] = authenticateUserId(c, m)] ELSE userId
  /\ lastOp' = Op("message", c, m)
  /\ prev' = Before(c)
  /\ requested' = IF m.parses /\ m.type = "join_room" /\ m.room # NoRoom
                   THEN [requested EXCEPT ![c] = @ \cup {m.room}] ELSE requested
  /\ UNCHANGED <<readyState, wsClients, interval, ended>>
  /\ UNCHANGED <<storeVars, hookVars>>

\* fault: the snapshot sent whatever the channel state
snapshotReplyUnguarded(p) == <<Frame(snapshotType(p.room), None)>>

\* the .then callback of a snapshot query: send the snapshot on an open channel
snapshotReply(p) ==
  IF readyState[p.conn] = "OPEN" THEN <<Frame(snapshotType(p.room), None)>> ELSE <<>>

SnapshotResolved ==
  /\ pending # <<>>
  /\ pending' = Tail(pending)
  /\ sentNow' = [NoFrames EXCEPT ![Head(pending).conn] = snapshotReply(Head(pending))]
  /\ lastOp' = [Op("snapshot", Head(pending).conn, NoMsg)
                  EXCEPT !.target = Head(pending).room]
  /\ prev' = Before(Head(pending).conn)
  /\ UNCHANGED <<readyState, wsClients, rooms, userId, interval, requested, ended>>
  /\ UNCHANGED <<storeVars, hookVars>>

\* the channel leaves OPEN (closing handshake begun) before any event is emitted
BeginClosing(c) ==
  /\ readyState[c] = "OPEN"
  /\ readyState' = [readyState EXCEPT ![c] = "CLOSING"]
  /\ sentNow' = NoFrames
  /\ lastOp' = Op("closing", c, NoMsg)
  /\ prev' = Before(c)
  /\ UNCHANGED <<wsClients, rooms, userId, interval, pending, requested, ended>>
  /\ UNCHANGED <<storeVars, hookVars>>

\* both ws.on('close') handlers: unregister the client, clear its timer
closeInterval(c) == [interval EXCEPT ![c] = FALSE]

closeClients(c) == wsClients \ {c}

Close(c) ==
  /\ readyState[c] \in {"OPEN", "CLOSING"}
  /\ readyState' = [readyState EXCEPT ![c] = "CLOSED"]
  /\ wsClients' = closeClients(c)
  /\ interval' = closeInterval(c)
  /\ sentNow' = NoFrames
  /\ lastOp' = Op("close", c, NoMsg)
  /\ prev' = Before(c)
  /\ ended' = ended \cup {c}
  /\ UNCHANGED <<rooms, userId, pending, requested>>
  /\ UNCHANGED <<storeVars, hookVars>>

\* ws.on('error'): unregister the client; the timer is left alone.
\* The socket that emits 'error' is no longer OPEN.
errorInterval(c) == interval

\* fault: the error handler leaves the client registered
errorClientsKept(c) == wsClients

errorClients(c) == wsClients \ {c}

Error(c) ==
  /\ readyState[c] \in {"OPEN", "CLOSING"}
  /\ readyState' = [readyState EXCEPT ![c] = "CLOSING"]
  /\ wsClients' = errorClients(c)
  /\ interval' = errorInterval(c)
  /\ sentNow' = NoFrames
  /\ lastOp' = Op("error", c, NoMsg)
  /\ prev' = Before(c)
  /\ ended' = ended \cup {c}
  /\ UNCHANGED <<rooms, userId, pending, requested>>
  /\ UNCHANGED <<storeVars, hookVars>>

\* fault: heartbeat sent whatever the channel state
heartbeatReplyUnguarded(c) == <<Frame("heartbeat", None)>>

\* the setInterval callback: heartbeat on an open channel, else clear the timer
heartbeatReply(c) ==
  IF readyState[c] = "OPEN" THEN <<Frame("heartbeat", None)>> ELSE <<>>

heartbeatInterval(c) ==
  IF readyState[c] = "OPEN" THEN interval ELSE [interval EXCEPT ![c] = FALSE]

HeartbeatTick(c) ==
  /\ interval[c]
  /\ sentNow' = [NoFrames EXCEPT ![c] = heartbeatReply(c)]
  /\ interval' = heartbeatInterval(c)
  /\ lastOp' = Op("heartbeat", c, NoMsg)
  /\ prev' = Before(c)
  /\ UNCHANGED <<readyState, wsClients, rooms, userId, pending, requested, ended>>
  /\ UNCHANGED <<storeVars, hookVars>>

\* a request handler (or the periodic leaderboard timer) calls broadcastToRoom
RoomBroadcast(room, t) ==
  /\ sentNow' = broadcastToRoom(room, Frame(t, None))
  /\ lastOp' = Call("broadcastToRoom", room, t)
  /\ prev' = NoPrev
  /\ UNCHANGED <<readyState, wsClients, rooms, userId, interval, pending,
                 requested, ended>>
  /\ UNCHANGED <<storeVars, hookVars>>

\* a request handler calls broadcastToUser for the acting user
UserBroadcast(u, t) ==
  /\ sentNow' = broadcastToUser(u, Frame(t, u))
  /\ lastOp' = Call("broadcastToUser", u, t)
  /\ prev' = NoPrev
  /\ UNCHANGED <<readyState, wsClients, rooms, userId, interval, pending,
                 requested, ended>>
  /\ UNCHANGED <<storeVars, hookVars>>

\* Two connections; their inbound frames are the well-formed join_room and
\* authenticate messages that decide who a broadcast reaches
FanoutMessages ==
  {m \in RawMessages :
     \/ m.type = "join_room" /\ m.room \in {"markets", "user_updates"}
     \/ m.type = "authenticate" /\ m.token \in {"tok_u1", "tok_u2"}}

Next ==
  \/ \E c \in Conns : Connection(c)
  \/ \E c \in Conns, m \in FanoutMessages : Message(c, m)
  \/ SnapshotResolved
  \/ \E c \in Conns : BeginClosing(c)
  \/ \E c \in Conns : Close(c)
  \/ \E c \in Conns : Error(c)
  \/ \E c \in Conns : HeartbeatTick(c)
  \/ \E cs \in RoomCallSites : RoomBroadcast(cs[1], cs[2])
  \/ \E u \in Users, t \in UserFrameTypes : UserBroadcast(u, t)

Spec == Init /\ [][Next]_vars

\* One connection receiving every kind of inbound frame
RouterConns == {"c1"}

RouterNext ==
  \/ \E c \in RouterConns : Connection(c)
  \/ \E c \in RouterConns, m \in RawMessages : Message(c, m)
  \/ SnapshotResolved
  \/ \E c \in RouterConns : BeginClosing(c)
  \/ \E c \in RouterConns : Close(c)
  \/ \E c \in RouterConns : Error(c)
  \/ \E c \in RouterConns : HeartbeatTick(c)
  \/ \E cs \in RoomCallSites : RoomBroadcast(cs[1], cs[2])
  \/ \E u \in Users, t \in UserFrameTypes : UserBroadcast(u, t)

SpecRouter == Init /\ [][RouterNext]_vars

\* ------------------------------------------------------- request handlers
\* most requests accepted in one run
MaxRequests == 3

DataFrame(t, u, data) == [type |-> t, user |-> u, data |-> data]
\* the frames of two broadcast calls made one after the other
Both(first, second) == [c \in Conns |-> first[c] \o second[c]]

Snapshot ==
  [users |-> users, predictionMarkets |-> predictionMarkets,
   predictions |-> predictions, tasks |-> tasks, userTasks |-> userTasks,
   rewards |-> rewards]

NewRequest(kind, tok, arg) ==
  [Idle EXCEPT !.kind = kind, !.tok = tok, !.arg = arg, !.pc = 1,
               !.alone = (\A t \in Slots : reqs[t].pc = 0), !.pre = Snapshot]

\* res.status(code).json(...): the handler is over
Respond(r, code, message) == [r EXCEPT !.pc = 0, !.status = code, !.message = message]
\* await: the rest of the handler, from segment pc on, is queued
Await(r, pc, loc) == [r EXCEPT !.pc = pc, !.loc = loc]

\* a request can start in slot s: the slot is free and no handler in flight
\* has been resumed yet
CanStart(s) ==
  /\ started < MaxRequests
  /\ reqs[s].pc = 0
  /\ \A t \in Slots : reqs[t].pc # 0 => ~reqs[t].ran
  /\ s = "r2" => reqs["r1"].pc # 0

\* the first segment of a handler has run and left the request as r
Accept(s, r) ==
  /\ reqs' = [t \in Slots |->
                IF t = s THEN r
                ELSE IF reqs[t].pc = 0 THEN Idle
                ELSE [reqs[t] EXCEPT !.alone = FALSE]]
  /\ jobs' = IF r.pc = 0 THEN jobs ELSE Append(jobs, s)
  /\ started' = started + 1
  /\ lastOp' = [Op(r.kind, None, NoMsg) EXCEPT !.target = s]
  /\ prev' = NoPrev
  /\ UNCHANGED <<readyState, wsClients, rooms, userId, interval, pending,
                 requested, ended>>
  /\ UNCHANGED hookVars

\* slot s is at the head of the microtask queue with a handler of this kind
CanResume(s, kind) == jobs # <<>> /\ Head(jobs) = s /\ reqs[s].kind = kind

\* the handler waits for bcrypt.hash, which resolves on the thread pool and
\* not in the microtask queue
Hashing(r) == r.kind = "POST /api/register" /\ r.pc = 3

\* a later segment of the handler in slot s has run and left the request as r
Settle(s, r) ==
  /\ reqs' = [reqs EXCEPT ![s] = [r EXCEPT !.ran = TRUE]]
  /\ jobs' = IF r.pc = 0 \/ Hashing(r) THEN Tail(jobs) ELSE Append(Tail(jobs), s)
  /\ lastOp' = [Op(r.kind, None, NoMsg) EXCEPT !.target = s]
  /\ prev' = NoPrev
  /\ UNCHANGED <<readyState, wsClients, rooms, userId, interval, pending,
                 requested, ended, started>>
  /\ UNCHANGED hookVars

\* ----- POST /api/predictions
currentBalance(r) == parseFloat(r.loc.user[1].bdagBalance)
betAmount(r) == parseFloat(r.arg.amount)

\* fault: no bet is refused for its amount
insufficientNever(r) == FALSE

\* currentBalance < betAmount
insufficient(r) == LessThan(currentBalance(r), betAmount(r))

\* fault: the bet is deducted from the balance stored now, not the one read
newBalanceFresh(r) ==
  toString(Minus(parseFloat(getUser(r.tok.userId)[1].bdagBalance), betAmount(r)))

\* (currentBalance - betAmount).toString()
newBalance(r) == toString(Minus(currentBalance(r), betAmount(r)))

\* list.reduce((sum, p) => sum + parseFloat(p.amount), 0)
RECURSIVE SumAmounts(_)
SumAmounts(list) ==
  IF list = <<>> THEN Num(0)
  ELSE Plus(SumAmounts(SubSeq(list, 1, Len(list) - 1)),
            parseFloat(list[Len(list)].amount))

\* totalPool > 0 ? ((amount / totalPool) * 100).toFixed(2) : "50.00"
percentage(amount, totalPool) ==
  IF LessThan(Zero, totalPool) THEN toFixed2(amount, totalPool) ELSE Fixed2(5000)

\* the updates passed to updatePredictionMarket
marketStatistics(list) ==
  [totalPool |-> toString(SumAmounts(list)),
   participantCount |-> Num(Len(list)),
   yesPercentage |-> percentage(SumAmounts(Filter(list, LAMBDA p : p.prediction)),
                                SumAmounts(list)),
   noPercentage |-> percentage(SumAmounts(Filter(list, LAMBDA p : ~p.prediction)),
                               SumAmounts(list))]

priceUpdate(r) ==
  DataFrame("price_update", None,
            [marketId |-> r.arg.marketId,
             totalPool |-> r.loc.updatedMarket[1].totalPool,
             yesPercentage |-> r.loc.updatedMarket[1].yesPercentage,
             noPercentage |-> r.loc.updatedMarket[1].noPercentage,
             participantCount |-> r.loc.updatedMarket[1].participantCount])

userStatsUpdate(r) ==
  DataFrame("user_stats_update", r.tok.userId,
            [id |-> r.loc.updatedUser[1].id,
             bdagBalance |-> r.loc.updatedUser[1].bdagBalance])

\* the request arrives: parse the body, call getUser
PostPredictions(s, tok, arg) ==
  /\ CanStart(s)
  /\ LET r == NewRequest("POST /api/predictions", tok, arg)
     IN  Accept(s, IF ~arg.valid THEN Respond(r, 400, "ZodError")
                   ELSE Await(r, 2, [r.loc EXCEPT !.user = getUser(tok.userId)]))
  /\ sentNow' = NoFrames
  /\ UNCHANGED <<users, predictionMarkets, predictions, tasks, userTasks, rewards>>

\* the handler after each of its awaits
predictionsResumed(r) ==
  CASE r.pc = 2 ->
         IF r.loc.user = <<>> THEN Respond(r, 404, "User not found")
         ELSE IF insufficient(r) THEN Respond(r, 400, "Insufficient BDAG balance")
         ELSE Await(r, 3, r.loc)
    [] r.pc = 3 ->
         IF getUser(r.tok.userId) = <<>> THEN Respond(r, 400, "User not found")
         ELSE Await(r, 4, [r.loc EXCEPT !.updatedUser =
                <<Merge(getUser(r.tok.userId)[1], [bdagBalance |-> newBalance(r)])>>])
    [] r.pc = 4 ->
         Await(r, 5, [r.loc EXCEPT !.market = getPredictionMarket(r.arg.marketId)])
    [] r.pc = 5 ->
         IF r.loc.market # <<>>
         THEN Await(r, 6, [r.loc EXCEPT !.predictions =
                             getPredictionsByMarket(r.arg.marketId)])
         ELSE Respond(r, 200, "")
    [] r.pc = 6 ->
         Await(r, 7, [r.loc EXCEPT !.updatedMarket =
                <<Merge(getPredictionMarket(r.arg.marketId)[1],
                        marketStatistics(r.loc.predictions))>>])
    [] OTHER -> Respond(r, 200, "")

\* fault: the prediction is stored before the user and the balance are checked
predictionCreatedUnchecked(r, after) == r.pc = 2

\* storage.createPrediction is reached: the user was found and can afford it
predictionCreated(r, after) == r.pc = 2 /\ after.pc = 3

PostPredictionsResume(s) ==
  LET r == reqs[s]
      after == predictionsResumed(r)
  IN
  /\ CanResume(s, "POST /api/predictions")
  /\ Settle(s, after)
  /\ predictions' =
       IF predictionCreated(r, after)
       THEN createPrediction([userId |-> r.tok.userId, marketId |-> r.arg.marketId,
                              prediction |-> r.arg.prediction, amount |-> r.arg.amount])
       ELSE predictions
  /\ users' = IF r.pc = 3 /\ after.pc = 4
              THEN updateUser(r.tok.userId, [bdagBalance |-> newBalance(r)])
              ELSE users
  /\ predictionMarkets' =
       IF r.pc = 6
       THEN updatePredictionMarket(r.arg.marketId, marketStatistics(r.loc.predictions))
       ELSE predictionMarkets
  /\ sentNow' =
       CASE r.pc = 5 /\ after.pc = 0 ->
              broadcastToUser(r.tok.userId, userStatsUpdate(r))
         [] r.pc = 7 ->
              Both(broadcastToRoom("markets", priceUpdate(r)),
                   broadcastToUser(r.tok.userId, userStatsUpdate(r)))
         [] OTHER -> NoFrames
  /\ UNCHANGED <<tasks, userTasks, rewards>>

\* ----- POST /api/prediction-markets
\* req.user.role === "basic"
marketForbidden(tok) == tok.role = "basic"

\* ids of a Map's records, newest first (the sort on createdAt)
NewestFirst(map) == [i \in 1..Len(map) |-> map[Len(map) + 1 - i].id]

PostPredictionMarkets(s, tok) ==
  /\ CanStart(s)
  /\ LET r == NewRequest("POST /api/prediction-markets", tok, NoArg)
     IN  /\ Accept(s, IF marketForbidden(tok)
                      THEN Respond(r, 403, "Upgrade required to create markets")
                      ELSE Await(r, 2, r.loc))
         /\ predictionMarkets' = IF marketForbidden(tok) THEN predictionMarkets
                                 ELSE createPredictionMarket(NoArg)
  /\ sentNow' = NoFrames
  /\ UNCHANGED <<users, predictions, tasks, userTasks, rewards>>

PostPredictionMarketsResume(s) ==
  LET r == reqs[s] IN
  /\ CanResume(s, "POST /api/prediction-markets")
  /\ Settle(s, IF r.pc = 2
               THEN Await(r, 3, [r.loc EXCEPT !.list = NewestFirst(predictionMarkets)])
               ELSE Respond(r, 200, ""))
  /\ sentNow' = IF r.pc = 3
                THEN broadcastToRoom("markets",
                                     DataFrame("market_update", None, r.loc.list))
                ELSE NoFrames
  /\ UNCHANGED <<users, predictionMarkets, predictions, tasks, userTasks, rewards>>

\* ----- POST /api/tasks
\* req.user.role !== "validator"
taskForbidden(tok) == tok.role # "validator"

\* a task body that passes insertTaskSchema
taskData ==
  [xpReward |-> Num(50), bdagReward |-> Str(10, 0), hasRequirements |-> FALSE,
   requirements |-> <<>>]

PostTasks(s, tok, arg) ==
  /\ CanStart(s)
  /\ LET r == NewRequest("POST /api/tasks", tok, arg)
     IN  /\ Accept(s, IF taskForbidden(tok)
                      THEN Respond(r, 403, "Only validators can create tasks")
                      ELSE IF ~arg.valid THEN Respond(r, 400, "ZodError")
                      ELSE Await(r, 2, r.loc))
         /\ tasks' = IF taskForbidden(tok) \/ ~arg.valid THEN tasks
                     ELSE createTask(taskData)
  /\ sentNow' = NoFrames
  /\ UNCHANGED <<users, predictionMarkets, predictions, userTasks, rewards>>

PostTasksResume(s) ==
  LET r == reqs[s] IN
  /\ CanResume(s, "POST /api/tasks")
  /\ Settle(s, IF r.pc = 2
               THEN Await(r, 3, [r.loc EXCEPT !.list = NewestFirst(tasks)])
               ELSE Respond(r, 200, ""))
  /\ sentNow' = IF r.pc = 3
                THEN broadcastToRoom("tasks", DataFrame("task_update", None, r.loc.list))
                ELSE NoFrames
  /\ UNCHANGED <<users, predictionMarkets, predictions, tasks, userTasks, rewards>>

\* ----- PATCH /api/user/wallet
\* the status of the catch block
walletErrorStatus == 500

PatchUserWallet(s, tok) ==
  /\ CanStart(s)
  /\ LET r == NewRequest("PATCH /api/user/wallet", tok, NoArg)
         found == getUser(tok.userId) # <<>>
     IN  /\ Accept(s, IF found
                      THEN Await(r, 2, [r.loc EXCEPT !.updatedUser =
                             <<Merge(getUser(tok.userId)[1], [walletAddress |-> "0xabc"])>>])
                      ELSE Await(r, 2, [r.loc EXCEPT !.threw = TRUE]))
         /\ users' = IF found THEN updateUser(tok.userId, [walletAddress |-> "0xabc"])
                     ELSE users
  /\ sentNow' = NoFrames
  /\ UNCHANGED <<predictionMarkets, predictions, tasks, userTasks, rewards>>

PatchUserWalletResume(s) ==
  LET r == reqs[s] IN
  /\ CanResume(s, "PATCH /api/user/wallet")
  /\ Settle(s, IF r.loc.threw THEN Respond(r, walletErrorStatus, "User not found")
               ELSE Respond(r, 200, ""))
  /\ sentNow' = IF r.loc.threw THEN NoFrames
                ELSE broadcastToUser(r.tok.userId, userStatsUpdate(r))
  /\ UNCHANGED <<users, predictionMarkets, predictions, tasks, userTasks, rewards>>

\* ----- POST /api/tasks/:taskId/start
\* Array.isArray(task.requirements) ? task.requirements.length : 1
maxProgress(task) == IF task.hasRequirements THEN Len(task.requirements) ELSE 1

userTaskUpdate(r, list) == DataFrame("user_task_update", r.tok.userId, list)

PostTaskStart(s, tok, arg) ==
  /\ CanStart(s)
  /\ LET r == NewRequest("POST /api/tasks/:taskId/start", tok, arg)
     IN  Accept(s, Await(r, 2, [r.loc EXCEPT !.userTask =
                                  getUserTask(tok.userId, arg.taskId)]))
  /\ sentNow' = NoFrames
  /\ UNCHANGED <<users, predictionMarkets, predictions, tasks, userTasks, rewards>>

startedUserTask(r) ==
  [userId |-> r.tok.userId, taskId |-> r.arg.taskId, status |-> "in_progress",
   progress |-> Num(0), maxProgress |-> Num(maxProgress(r.loc.task[1]))]

taskStartResumed(r) ==
  CASE r.pc = 2 ->
         IF r.loc.userTask # <<>> THEN Respond(r, 400, "Task already started")
         ELSE Await(r, 3, [r.loc EXCEPT !.task = getTask(r.arg.taskId)])
    [] r.pc = 3 ->
         IF r.loc.task = <<>> THEN Respond(r, 404, "Task not found")
         ELSE Await(r, 4, r.loc)
    [] r.pc = 4 ->
         Await(r, 5, [r.loc EXCEPT !.list = getUserTasks(r.tok.userId)])
    [] OTHER -> Respond(r, 200, "")

PostTaskStartResume(s) ==
  LET r == reqs[s]
      after == taskStartResumed(r)
  IN
  /\ CanResume(s, "POST /api/tasks/:taskId/start")
  /\ Settle(s, after)
  /\ userTasks' = IF r.pc = 3 /\ after.pc = 4
                  THEN createUserTask(startedUserTask(r)) ELSE userTasks
  /\ sentNow' = IF r.pc = 5
                THEN broadcastToUser(r.tok.userId, userTaskUpdate(r, r.loc.list))
                ELSE NoFrames
  /\ UNCHANGED <<users, predictionMarkets, predictions, tasks, rewards>>

\* ----- PATCH /api/user-tasks/:userTaskId
\* existingUserTask.find(ut => ut.id === userTaskId)
userTaskToUpdate(r) == Filter(r.loc.list, LAMBDA ut : ut.id = r.arg.userTaskId)

\* the updates passed to updateUserTask
progressUpdates(r) ==
  [progress |-> r.arg.progress,
   status |-> IF AtLeast(r.arg.progress, userTaskToUpdate(r)[1].maxProgress)
              THEN "completed" ELSE "in_progress",
   completedAt |-> IF AtLeast(r.arg.progress, userTaskToUpdate(r)[1].maxProgress)
                   THEN "Date" ELSE "null"]

\* fault: only the update that completes the user task earns the reward
rewardDueOnce(r) ==
  /\ r.loc.userTask[1].status = "completed"
  /\ userTaskToUpdate(r)[1].status # "completed"

\* userTask.status === "completed"
rewardDue(r) == r.loc.userTask[1].status = "completed"

taskReward(r) ==
  [userId |-> r.tok.userId, type |-> "task_completion", source |-> r.loc.task[1].id,
   xpAmount |-> r.loc.task[1].xpReward, bdagAmount |-> r.loc.task[1].bdagReward]

\* the updates passed to updateUser
rewardUpdates(r) ==
  [xp |-> Plus(r.loc.user[1].xp, r.loc.task[1].xpReward),
   weeklyXp |-> Plus(r.loc.user[1].weeklyXp, r.loc.task[1].xpReward),
   bdagBalance |-> toString(Plus(parseFloat(r.loc.user[1].bdagBalance),
                                 parseFloat(r.loc.task[1].bdagReward)))]

userXpUpdate(r) ==
  DataFrame("user_stats_update", r.tok.userId,
            [id |-> r.loc.updatedUser[1].id, xp |-> r.loc.updatedUser[1].xp,
             weeklyXp |-> r.loc.updatedUser[1].weeklyXp,
             bdagBalance |-> r.loc.updatedUser[1].bdagBalance])

\* leaderboard.map(u => ({id, ..., weeklyXp, ...}))
leaderboardUpdate(list) ==
  DataFrame("leaderboard_update", None,
            [i \in 1..Len(list) |-> [id |-> list[i].id, weeklyXp |-> list[i].weeklyXp]])

PatchUserTasks(s, tok, arg) ==
  /\ CanStart(s)
  /\ LET r == NewRequest("PATCH /api/user-tasks/:userTaskId", tok, arg)
     IN  Accept(s, Await(r, 2, [r.loc EXCEPT !.list = getUserTasks(tok.userId)]))
  /\ sentNow' = NoFrames
  /\ UNCHANGED <<users, predictionMarkets, predictions, tasks, userTasks, rewards>>

\* the tail of the handler: data: await storage.getUserTasks(...)
ThenUserTasks(r) == Await(r, 9, [r.loc EXCEPT !.list = getUserTasks(r.tok.userId)])

userTasksResumed(r) ==
  CASE r.pc = 2 ->
         IF userTaskToUpdate(r) = <<>> THEN Respond(r, 404, "User task not found")
         ELSE Await(r, 3, [r.loc EXCEPT !.userTask =
                <<Merge(Filter(userTasks, LAMBDA ut : ut.id = r.arg.userTaskId)[1],
                        progressUpdates(r))>>])
    [] r.pc = 3 ->
         IF rewardDue(r)
         THEN Await(r, 4, [r.loc EXCEPT !.task = getTask(r.loc.userTask[1].taskId)])
         ELSE ThenUserTasks(r)
    [] r.pc = 4 ->
         IF r.loc.task # <<>> THEN Await(r, 5, r.loc) ELSE ThenUserTasks(r)
    [] r.pc = 5 ->
         Await(r, 6, [r.loc EXCEPT !.user = getUser(r.tok.userId)])
    [] r.pc = 6 ->
         IF r.loc.user # <<>>
         THEN Await(r, 7, [r.loc EXCEPT !.updatedUser =
                <<Merge(getUser(r.tok.userId)[1], rewardUpdates(r))>>])
         ELSE ThenUserTasks(r)
    [] r.pc = 7 ->
         Await(r, 8, [r.loc EXCEPT !.leaderboard = getLeaderboard(100)])
    [] r.pc = 8 -> ThenUserTasks(r)
    [] OTHER -> Respond(r, 200, "")

PatchUserTasksResume(s) ==
  LET r == reqs[s]
      after == userTasksResumed(r)
  IN
  /\ CanResume(s, "PATCH /api/user-tasks/:userTaskId")
  /\ Settle(s, after)
  /\ userTasks' = IF r.pc = 2 /\ after.pc = 3
                  THEN updateUserTask(r.arg.userTaskId, progressUpdates(r))
                  ELSE userTasks
  /\ rewards' = IF r.pc = 4 /\ after.pc = 5 THEN createReward(taskReward(r))
                ELSE rewards
  /\ users' = IF r.pc = 6 /\ after.pc = 7
              THEN updateUser(r.tok.userId, rewardUpdates(r)) ELSE users
  /\ sentNow' =
       CASE r.pc = 7 -> broadcastToUser(r.tok.userId, userXpUpdate(r))
         [] r.pc = 8 -> broadcastToRoom("leaderboard", leaderboardUpdate(r.loc.leaderboard))
         [] r.pc = 9 -> broadcastToUser(r.tok.userId, userTaskUpdate(r, r.loc.list))
         [] OTHER -> NoFrames
  /\ UNCHANGED <<predictionMarkets, predictions, tasks>>

\* ----- POST /api/register
\* userData: a body with username, email and password only
registerData(r) ==
  [email |-> r.arg.email, role |-> NoRole, xp |-> Undefined, weeklyXp |-> Undefined,
   bdagBalance |-> Undefined, walletAddress |-> "undefined"]

\* a request arrives while every handler in flight waits for its hash
CanStartWhileHashing(s) ==
  /\ started < MaxRequests
  /\ reqs[s].pc = 0
  /\ jobs = <<>>

PostRegister(s, arg) ==
  /\ CanStart(s) \/ CanStartWhileHashing(s)
  /\ LET r == NewRequest("POST /api/register", Token(None, NoRole), arg)
     IN  Accept(s, IF ~arg.valid THEN Respond(r, 400, "ZodError")
                   ELSE Await(r, 2, [r.loc EXCEPT !.user = getUserByEmail(arg.email)]))
  /\ sentNow' = NoFrames
  /\ UNCHANGED <<users, predictionMarkets, predictions, tasks, userTasks, rewards>>

registerResumed(r) ==
  CASE r.pc = 2 ->
         IF r.loc.user # <<>> THEN Respond(r, 400, "User already exists")
         ELSE Await(r, 3, r.loc)
    [] OTHER -> Respond(r, 200, "")

PostRegisterResume(s) ==
  /\ CanResume(s, "POST /api/register")
  /\ Settle(s, registerResumed(reqs[s]))
  /\ sentNow' = NoFrames
  /\ UNCHANGED <<users, predictionMarkets, predictions, tasks, userTasks, rewards>>

\* bcrypt.hash has resolved: the handler goes on to storage.createUser
HashResolved(s) ==
  /\ Hashing(reqs[s])
  /\ jobs = <<>>
  /\ users' = createUser(registerData(reqs[s]))
  /\ reqs' = [reqs EXCEPT ![s] = [Await(reqs[s], 4, reqs[s].loc) EXCEPT !.ran = TRUE]]
  /\ jobs' = <<s>>
  /\ sentNow' = NoFrames
  /\ lastOp' = [Op(reqs[s].kind, None, NoMsg) EXCEPT !.target = s]
  /\ prev' = NoPrev
  /\ UNCHANGED <<readyState, wsClients, rooms, userId, interval, pending,
                 requested, ended, started>>
  /\ UNCHANGED hookVars
  /\ UNCHANGED <<predictionMarkets, predictions, tasks, userTasks, rewards>>

\* ------------------------------------------------------ the running server
\* Users registered through POST /api/register after start-up: a request body
\* that gives role, xp, weeklyXp and bdagBalance, and one that gives none of
\* them (createUser stores what the body holds)
registered(id, role) ==
  [id |-> id, email |-> id, role |-> role, xp |-> Num(0), weeklyXp |-> Num(0),
   bdagBalance |-> Str(100, 0), walletAddress |-> "undefined"]
registeredBare(id) ==
  [id |-> id, email |-> id, role |-> NoRole, xp |-> Undefined, weeklyXp |-> Undefined,
   bdagBalance |-> Undefined, walletAddress |-> "undefined"]

\* the token each of them was handed, and one signed for a user the store
\* no longer holds
Bearer ==
  [u1 |-> Token("u1", "basic"), u2 |-> Token("u2", NoRole),
   u3 |-> Token("u3", "validator"), u4 |-> Token("u4", "premium"),
   gone |-> Token("gone", "basic")]

\* two sockets are open: u1 follows every room, u2 the leaderboard
InitServer ==
  /\ readyState = [c \in Conns |-> "OPEN"]
  /\ wsClients = Conns
  /\ rooms = [c \in Conns |-> IF c = "c1" THEN SnapshotRooms ELSE {"leaderboard"}]
  /\ userId = [c \in Conns |-> IF c = "c1" THEN "u1" ELSE "u2"]
  /\ interval = [c \in Conns |-> TRUE]
  /\ pending = <<>>
  /\ sentNow = NoFrames
  /\ lastOp = Op("init", None, NoMsg)
  /\ prev = NoPrev
  /\ requested = [c \in Conns |-> rooms[c]]
  /\ ended = {}
  /\ users = <<sampleUser, registered("u1", "basic"), registeredBare("u2"),
               registered("u3", "validator"), registered("u4", "premium")>>
  /\ predictionMarkets = <<sampleMarket>>
  /\ predictions = <<>>
  /\ tasks = <<sampleTask>>
  /\ userTasks = <<>>
  /\ rewards = <<>>
  /\ NoRequests
  /\ Unmounted

Amounts == {Str(0, 0), Str(40, 0), Str(70, 0)}

\* prediction bodies: every side and amount on market 1, one on a market
\* that does not exist, one that fails the schema
PredictionBodies ==
  {[NoArg EXCEPT !.marketId = 1, !.prediction = side, !.amount = a] :
     side \in BOOLEAN, a \in Amounts}
  \cup {[NoArg EXCEPT !.marketId = 0, !.amount = Str(40, 0)],
        [NoArg EXCEPT !.valid = FALSE]}

PredictionsNext ==
  \/ \E s \in Slots, a \in PredictionBodies : PostPredictions(s, Bearer.u1, a)
  \/ \E s \in Slots : PostPredictions(s, Bearer.gone, [NoArg EXCEPT !.amount = Str(40, 0)])
  \/ \E s \in Slots : PostPredictionsResume(s)
  \/ \E s \in Slots, u \in {"u1", "u2", "u3", "u4"} : PostPredictionMarkets(s, Bearer[u])
  \/ \E s \in Slots : PostPredictionMarketsResume(s)

SpecPredictions == InitServer /\ [][PredictionsNext]_vars

\* the same handler fed amounts with a fractional part
DecimalAmounts == {Str(1, 1), Str(2, 1), Str(3, 1)}

DecimalBodies ==
  {[NoArg EXCEPT !.marketId = 1, !.prediction = side, !.amount = a] :
     side \in BOOLEAN, a \in DecimalAmounts}

DecimalNext ==
  \/ \E s \in Slots, a \in DecimalBodies : PostPredictions(s, Bearer.u1, a)
  \/ \E s \in Slots : PostPredictionsResume(s)

SpecDecimal == InitServer /\ [][DecimalNext]_vars

\* tasks: validators and others create them, u2 and u3 start and advance
\* them; u1 and a user the store no longer holds set a wallet address, and
\* that user places a prediction
TaskIds == {1, 0}
UserTaskIds == {1, 2}
Progresses == {Num(1), Num(3)}

TasksNext ==
  \/ \E s \in Slots, u \in {"u1", "u2", "u3"}, ok \in BOOLEAN :
       PostTasks(s, Bearer[u], [NoArg EXCEPT !.valid = ok])
  \/ \E s \in Slots : PostTasksResume(s)
  \/ \E s \in Slots, u \in {"u1", "gone"} : PatchUserWallet(s, Bearer[u])
  \/ \E s \in Slots : PatchUserWalletResume(s)
  \/ \E s \in Slots, u \in {"u2", "u3"}, t \in TaskIds :
       PostTaskStart(s, Bearer[u], [NoArg EXCEPT !.taskId = t])
  \/ \E s \in Slots : PostTaskStartResume(s)
  \/ \E s \in Slots, u \in {"u2", "u3"}, ut \in UserTaskIds, p \in Progresses :
       PatchUserTasks(s, Bearer[u], [NoArg EXCEPT !.userTaskId = ut, !.progress = p])
  \/ \E s \in Slots : PatchUserTasksResume(s)
  \/ \E s \in Slots :
       PostPredictions(s, Bearer.gone, [NoArg EXCEPT !.marketId = 1, !.amount = Str(40, 0)])
  \/ \E s \in Slots : PostPredictionsResume(s)

SpecTasks == InitServer /\ [][TasksNext]_vars

\* creation of markets and tasks by users of every role
CreationNext ==
  \/ \E s \in Slots, u \in {"u1", "u2", "u3", "u4"} : PostPredictionMarkets(s, Bearer[u])
  \/ \E s \in Slots : PostPredictionMarketsResume(s)
  \/ \E s \in Slots, u \in {"u1", "u2", "u3", "u4"}, ok \in BOOLEAN :
       PostTasks(s, Bearer[u], [NoArg EXCEPT !.valid = ok])
  \/ \E s \in Slots : PostTasksResume(s)

SpecCreation == InitServer /\ [][CreationNext]_vars

\* one user's ledger: u3 starts and advances task 1 and bets on market 1
LedgerAmounts == {Str(40, 0), Str(70, 0)}

LedgerNext ==
  \/ \E s \in Slots : PostTaskStart(s, Bearer.u3, [NoArg EXCEPT !.taskId = 1])
  \/ \E s \in Slots : PostTaskStartResume(s)
  \/ \E s \in Slots, p \in Progresses :
       PatchUserTasks(s, Bearer.u3, [NoArg EXCEPT !.userTaskId = 1, !.progress = p])
  \/ \E s \in Slots : PatchUserTasksResume(s)
  \/ \E s \in Slots, a \in LedgerAmounts :
       PostPredictions(s, Bearer.u3, [NoArg EXCEPT !.marketId = 1, !.amount = a])
  \/ \E s \in Slots : PostPredictionsResume(s)

SpecLedger == InitServer /\ [][LedgerNext]_vars

\* registrations: a new address, one that is taken, a body that fails the schema
Emails == {"new", "u1"}

RegisterNext ==
  \/ \E s \in Slots, e \in Emails : PostRegister(s, [NoArg EXCEPT !.email = e])
  \/ \E s \in Slots : PostRegister(s, [NoArg EXCEPT !.valid = FALSE])
  \/ \E s \in Slots : PostRegisterResume(s)
  \/ \E s \in Slots : HashResolved(s)

SpecRegister == InitServer /\ [][RegisterNext]_vars

\* ------------------------------------------------------- the client hook
\* useWebSocket: every render defines a connect that closes over that
\* render's reconnectAttempts; the handlers of a socket, and the timeout
\* callback that calls connect again, belong to the connect that made them
maxReconnectAttempts == 10
\* most reconnect timeouts that fire without an open in between
MaxAttempts == 11

serverVars == <<readyState, wsClients, rooms, userId, interval, pending, sentNow,
                lastOp, prev, requested, ended, storeVars>>

\* useEffect(() => { connect(); ... }, []): the connect of the first render
Mount ==
  /\ socketRef = "none"
  /\ socketRef' = "connecting"
  /\ seenAttempts' = reconnectAttempts
  /\ hookOp' = "connect"
  /\ UNCHANGED <<reconnectAttempts, isConnected, reconnectTimeoutRef, closes>>
  /\ UNCHANGED serverVars

\* the connect returned by the latest render, called while no socket is
\* live and no timeout is pending
Connect ==
  /\ socketRef = "closed" /\ ~reconnectTimeoutRef
  /\ socketRef' = "connecting"
  /\ seenAttempts' = reconnectAttempts
  /\ hookOp' = "connect"
  /\ UNCHANGED <<reconnectAttempts, isConnected, reconnectTimeoutRef, closes>>
  /\ UNCHANGED serverVars

\* socketRef.current.onopen
OnOpen ==
  /\ socketRef = "connecting"
  /\ socketRef' = "open"
  /\ isConnected' = TRUE
  /\ reconnectAttempts' = 0
  /\ closes' = 0
  /\ hookOp' = "open"
  /\ UNCHANGED <<seenAttempts, reconnectTimeoutRef>>
  /\ UNCHANGED serverVars

\* reconnectAttempts < maxReconnectAttempts, as the onclose handler reads it
reconnectDue == seenAttempts < maxReconnectAttempts

\* socketRef.current.onclose
OnClose ==
  /\ socketRef \in {"connecting", "open", "closing"}
  /\ socketRef' = "closed"
  /\ isConnected' = FALSE
  /\ reconnectTimeoutRef' = (reconnectDue \/ reconnectTimeoutRef)
  /\ closes' = IF closes > maxReconnectAttempts THEN closes ELSE closes + 1
  /\ hookOp' = IF reconnectDue THEN "close, reconnect scheduled" ELSE "close"
  /\ UNCHANGED <<reconnectAttempts, seenAttempts>>
  /\ UNCHANGED serverVars

\* the setTimeout callback: setReconnectAttempts(prev => prev + 1); connect()
ReconnectTimeout ==
  /\ reconnectTimeoutRef
  /\ reconnectAttempts < MaxAttempts
  /\ reconnectTimeoutRef' = FALSE
  /\ reconnectAttempts' = reconnectAttempts + 1
  /\ socketRef' = "connecting"
  /\ hookOp' = "timeout"
  /\ UNCHANGED <<isConnected, seenAttempts, closes>>
  /\ UNCHANGED serverVars

\* disconnect(): clear the timeout, close an open socket
Disconnect ==
  /\ socketRef # "none"
  /\ reconnectTimeoutRef' = FALSE
  /\ socketRef' = IF socketRef = "open" THEN "closing" ELSE socketRef
  /\ isConnected' = FALSE
  /\ hookOp' = "disconnect"
  /\ UNCHANGED <<reconnectAttempts, seenAttempts, closes>>
  /\ UNCHANGED serverVars

HookNext ==
  \/ Mount
  \/ Connect
  \/ OnOpen
  \/ OnClose
  \/ ReconnectTimeout
  \/ Disconnect

SpecHook == Init /\ [][HookNext]_vars

\* ------------------------------------------------------------------ claims
FramesSent(c) == {sentNow[c][i] : i \in 1..Len(sentNow[c])}
IsMessage(o, c, t) ==
  o.op = "message" /\ o.conn = c /\ o.msg.parses /\ o.msg.type = t
IsBroadcast(o) == o.op \in {"broadcastToRoom", "broadcastToUser"}

\* C1: a room broadcast sends exactly one copy of the frame to every registered
\* connection that has joined the room and whose channel is open, and nothing
\* to any other connection (not joined, not open, or not registered).
C1_RoomBroadcastTargets ==
  lastOp.op = "broadcastToRoom" =>
    \A c \in Conns :
      sentNow[c] =
        IF c \in wsClients /\ lastOp.target \in rooms[c] /\ readyState[c] = "OPEN"
        THEN <<Frame(lastOp.frame, None)>>
        ELSE <<>>

\* C1 witness: a broadcast reached a joined open connection while another
\* open, registered connection that joined no room got nothing.
C1_Witness ==
  /\ lastOp.op = "broadcastToRoom"
  /\ \E c, d \in Conns :
       /\ c # d
       /\ sentNow[c] = <<Frame(lastOp.frame, None)>>
       /\ d \in wsClients /\ readyState[d] = "OPEN" /\ rooms[d] = {}
       /\ sentNow[d] = <<>>

\* C2: a connection's membership set is exactly the set of distinct room names
\* carried by the join_room messages it has received.
C2_MembershipIsRequested ==
  \A c \in Conns : rooms[c] = requested[c]

\* C2 witness: a join_room for a room the connection had already joined was
\* handled, and the membership (two rooms) is what it was before.
C2_Witness ==
  \E c \in Conns :
    /\ IsMessage(lastOp, c, "join_room")
    /\ lastOp.msg.room \in prev.rooms
    /\ rooms[c] = prev.rooms
    /\ Cardinality(rooms[c]) = 2

\* C3: a user-targeted frame (user_stats_update, user_task_update) addressed to
\* user u is sent only on open, registered connections whose identity is u.
C3_UserFramesOnlyToIdentity ==
  \A c \in Conns : \A f \in FramesSent(c) :
    f.type \in UserFrameTypes =>
      /\ lastOp.op = "broadcastToUser" /\ f.user = lastOp.target
      /\ userId[c] = f.user
      /\ c \in wsClients /\ readyState[c] = "OPEN"

\* C3 witness: a user broadcast reached the connection authenticated as that
\* user while an open connection in room "user_updates" with another identity
\* (or none) got nothing.
C3_Witness ==
  /\ lastOp.op = "broadcastToUser"
  /\ \E c, d \in Conns :
       /\ userId[c] = lastOp.target /\ sentNow[c] # <<>>
       /\ userId[d] # lastOp.target
       /\ "user_updates" \in rooms[d]
       /\ d \in wsClients /\ readyState[d] = "OPEN"
       /\ sentNow[d] = <<>>

\* C4: handling a ping sends exactly one pong to that connection when its
\* channel is open and nothing when it is not; no other frame is sent or
\* scheduled and nothing else changes.
C4_PingPong ==
  [][\A c \in Conns :
       IsMessage(lastOp', c, "ping") =>
         /\ sentNow' = [NoFrames EXCEPT
                          ![c] = IF readyState[c] = "OPEN"
                                 THEN <<Frame("pong", None)>> ELSE <<>>]
         /\ UNCHANGED <<readyState, wsClients, rooms, userId, interval, pending>>]_vars

\* C4 witness: a ping on an open connection was answered by one pong.
C4_Witness ==
  \E c \in Conns :
    /\ IsMessage(lastOp, c, "ping")
    /\ readyState[c] = "OPEN"
    /\ sentNow[c] = <<Frame("pong", None)>>

\* C5: join_room with a room adds the room and sends nothing at once; for
\* "leaderboard", "markets", "tasks" it queues one snapshot query whose
\* callback sends one leaderboard_update, market_update or task_update frame
\* if the channel is open then; for any other room nothing is queued.
C5_JoinRoomSnapshot ==
  /\ [][\A c \in Conns :
          (IsMessage(lastOp', c, "join_room") /\ lastOp'.msg.room # NoRoom) =>
            /\ lastOp'.msg.room \in rooms'[c]
            /\ sentNow' = NoFrames
            /\ pending' =
                 IF lastOp'.msg.room \in {"leaderboard", "markets", "tasks"}
                 THEN Append(pending, [conn |-> c, room |-> lastOp'.msg.room])
                 ELSE pending]_vars
  /\ [][pending' # pending =>
          \/ IsMessage(lastOp', lastOp'.conn, "join_room")
          \/ /\ lastOp'.op = "snapshot"
             /\ pending = <<[conn |-> lastOp'.conn, room |-> lastOp'.target]>>
                            \o pending']_vars
  /\ [](lastOp.op = "snapshot" =>
          sentNow = [NoFrames EXCEPT
                       ![lastOp.conn] =
                          IF readyState[lastOp.conn] # "OPEN" THEN <<>>
                          ELSE IF lastOp.target = "leaderboard"
                               THEN <<Frame("leaderboard_update", None)>>
                          ELSE IF lastOp.target = "markets"
                               THEN <<Frame("market_update", None)>>
                          ELSE <<Frame("task_update", None)>>])

\* C5 witness: the snapshot query of a join_room "tasks" resolved on an open
\* channel and sent one task_update frame.
C5_Witness ==
  /\ lastOp.op = "snapshot" /\ lastOp.target = "tasks"
  /\ "tasks" \in rooms[lastOp.conn]
  /\ sentNow[lastOp.conn] = <<Frame("task_update", None)>>

\* C6 (as claimed): once a connection has an identity, no later event on that
\* connection changes it.
C6_IdentitySetOnce ==
  (lastOp.conn \in Conns /\ prev.userId # None) =>
    userId[lastOp.conn] = prev.userId

\* C6 (amended): a connection's identity changes only when it handles an
\* authenticate message whose token verifies, and it then becomes the user of
\* that token, whether or not an identity was already set.
C6_IdentityFollowsLastValidToken ==
  [][\A c \in Conns :
       userId'[c] =
         IF IsMessage(lastOp', c, "authenticate") /\ lastOp'.msg.token = "tok_u1"
         THEN "u1"
         ELSE IF IsMessage(lastOp', c, "authenticate") /\ lastOp'.msg.token = "tok_u2"
         THEN "u2"
         ELSE userId[c]]_vars

\* C6 witness: a connection authenticated as u1 handled a valid token of u2
\* and is now u2.
C6_Witness ==
  \E c \in Conns :
    /\ IsMessage(lastOp, c, "authenticate")
    /\ prev.userId = "u1"
    /\ userId[c] = "u2"

\* C7: an authenticate message whose token fails verification leaves the
\* identity as it was, sends no frame, and leaves the connection's channel
\* state and registration unchanged.
C7_FailedAuthenticateNoEffect ==
  [][\A c \in Conns :
       (IsMessage(lastOp', c, "authenticate") /\ lastOp'.msg.token = "forged") =>
         /\ userId' = userId
         /\ sentNow' = NoFrames
         /\ UNCHANGED <<readyState, wsClients, rooms, interval, pending>>]_vars

\* C7 witness: a forged token was handled on an open, registered connection
\* that was authenticated as u1 and still is.
C7_Witness ==
  \E c \in Conns :
    /\ IsMessage(lastOp, c, "authenticate") /\ lastOp.msg.token = "forged"
    /\ prev.userId = "u1" /\ userId[c] = "u1"
    /\ readyState[c] = "OPEN" /\ c \in wsClients
    /\ sentNow = NoFrames

\* C8: a frame that does not parse, has an unknown type, or is a join_room
\* without a room sends nothing and changes neither the registry nor any
\* connection's rooms, identity, channel state, timer or queued snapshots.
Malformed(m) ==
  \/ ~m.parses
  \/ m.type \notin {"join_room", "ping", "authenticate"}
  \/ m.type = "join_room" /\ m.room = NoRoom

C8_MalformedNoEffect ==
  [][(lastOp'.op = "message" /\ Malformed(lastOp'.msg)) =>
       /\ sentNow' = NoFrames
       /\ UNCHANGED <<readyState, wsClients, rooms, userId, interval, pending>>]_vars

\* C8 witness: a join_room without a room was handled on an open connection
\* that keeps its one room and its identity.
C8_Witness ==
  \E c \in Conns :
    /\ IsMessage(lastOp, c, "join_room") /\ lastOp.msg.room = NoRoom
    /\ readyState[c] = "OPEN" /\ c \in wsClients
    /\ rooms[c] = {"markets"} /\ userId[c] = "u1"
    /\ sentNow = NoFrames

\* C9: the registry holds exactly the connections that were opened and have
\* emitted neither 'close' nor 'error', and a broadcast never sends to a
\* connection that has been removed.
C9_RegistryIsLiveConnections ==
  /\ wsClients = {c \in Conns : readyState[c] # "NONE"} \ ended
  /\ IsBroadcast(lastOp) => \A c \in ended : sentNow[c] = <<>>

\* C9 witness: 'close' arrived on a connection already removed by 'error',
\* while the other connection stays registered.
C9_Witness ==
  \E c, d \in Conns :
    /\ c # d
    /\ lastOp.op = "close" /\ lastOp.conn = c
    /\ ~prev.registered
    /\ wsClients = {d}

\* C10 (as claimed): after a 'close' or an 'error' event on a connection its
\* heartbeat timer is not active and no heartbeat frame is sent to it.
C10_TimerCancelledOnCloseOrError ==
  \A c \in ended :
    /\ ~interval[c]
    /\ \A f \in FramesSent(c) : f.type # "heartbeat"

\* C10 (amended): a tick sends one heartbeat frame only while the channel is
\* open; the timer is cancelled by the 'close' event or by the first tick that
\* finds the channel not open; an 'error' event leaves the timer as it was.
C10_HeartbeatOnlyWhileOpen ==
  /\ \A c \in Conns : \A f \in FramesSent(c) :
       f.type = "heartbeat" =>
         /\ lastOp.op = "heartbeat" /\ lastOp.conn = c
         /\ prev.interval /\ readyState[c] = "OPEN"
  /\ \A c \in Conns : readyState[c] = "CLOSED" => ~interval[c]
  /\ lastOp.op = "close" => ~interval[lastOp.conn]
  /\ lastOp.op = "heartbeat" =>
       IF readyState[lastOp.conn] = "OPEN"
       THEN /\ sentNow[lastOp.conn] = <<Frame("heartbeat", None)>>
            /\ interval[lastOp.conn]
       ELSE /\ sentNow[lastOp.conn] = <<>>
            /\ ~interval[lastOp.conn]
  /\ lastOp.op = "error" => interval[lastOp.conn] = prev.interval

\* C10 witness: an 'error' event was handled and the connection's timer is
\* still active.
C10_Witness ==
  /\ lastOp.op = "error"
  /\ interval[lastOp.conn]
  /\ readyState[lastOp.conn] # "OPEN"

\* ---------------------------------------------------- claims on the store
Predictions == "POST /api/predictions"
\* the user of request r as the request found it
PreUser(r) == Filter(r.pre.users, LAMBDA u : u.id = r.tok.userId)
\* a numeric string with at most two decimals, and its value in hundredths
IsCents(x) == x.k = "string" /\ Str(Hundredths(parseFloat(x)), 2) = x
Cents(x) == Hundredths(parseFloat(x))

\* C11: a prediction request that runs alone, by a user whose balance is at
\* least the amount, is accepted, leaves the balance at exactly the previous
\* balance minus the amount and stores one prediction; one whose amount
\* exceeds the balance is rejected with "Insufficient BDAG balance"
C11_BalanceDeducted ==
  \A s \in Slots :
    LET r == reqs[s] IN
    (/\ r.kind = Predictions /\ r.pc = 0 /\ r.status # 0 /\ r.alone /\ r.arg.valid
     /\ PreUser(r) # <<>> /\ IsCents(PreUser(r)[1].bdagBalance)
     /\ IsCents(r.arg.amount))
    => IF Cents(PreUser(r)[1].bdagBalance) >= Cents(r.arg.amount)
       THEN /\ r.status = 200
            /\ Len(predictions) = Len(r.pre.predictions) + 1
            /\ getUser(r.tok.userId)[1].bdagBalance =
                 Str(Cents(PreUser(r)[1].bdagBalance) - Cents(r.arg.amount), 2)
       ELSE /\ r.status = 400 /\ r.message = "Insufficient BDAG balance"
            /\ predictions = r.pre.predictions /\ users = r.pre.users

\* two accepted prediction requests of one user that ran interleaved, both
\* having read the same balance
Raced(s, t) ==
  /\ s # t
  /\ \A x \in {s, t} : reqs[x].kind = Predictions /\ reqs[x].pc = 0
                       /\ reqs[x].status = 200 /\ ~reqs[x].alone
  /\ reqs[s].tok.userId = reqs[t].tok.userId
  /\ reqs[s].loc.user = reqs[t].loc.user

\* C12: when two prediction requests of the same user interleave, both reading
\* the same starting balance, both are accepted and stored, and the final
\* balance is the starting balance less only one of the two amounts
C12_LostDeduction ==
  \A s, t \in Slots :
    Raced(s, t) =>
      /\ Len(predictions) = Len(reqs[s].pre.predictions) + 2
      /\ getUser(reqs[s].tok.userId)[1].bdagBalance \in
           {toString(Minus(currentBalance(reqs[x]), betAmount(reqs[x]))) : x \in {s, t}}

\* the two amounts staked together exceed the balance the user had
C12_Witness ==
  \E s, t \in Slots :
    /\ Raced(s, t)
    /\ LessThan(currentBalance(reqs[s]), Plus(betAmount(reqs[s]), betAmount(reqs[t])))
    /\ Len(predictions) = Len(reqs[s].pre.predictions) + 2

Progress == "PATCH /api/user-tasks/:userTaskId"
\* the user task that request r names, and its task, as the request found them
PreUserTask(r) ==
  Filter(r.pre.userTasks,
         LAMBDA ut : ut.id = r.arg.userTaskId /\ ut.userId = r.tok.userId)
PreTask(r) == Filter(r.pre.tasks, LAMBDA t : t.id = PreUserTask(r)[1].taskId)
\* a progress update that ran alone and was answered with 200
Updated(r) ==
  /\ r.kind = Progress /\ r.pc = 0 /\ r.status = 200 /\ r.alone
  /\ PreUserTask(r) # <<>>
\* r's progress reaches maxProgress and the task and the user exist
Completes(r) ==
  /\ AtLeast(r.arg.progress, PreUserTask(r)[1].maxProgress)
  /\ PreTask(r) # <<>> /\ PreUser(r) # <<>>
\* the newest reward record is the one request r's task earns
RewardStored(r) ==
  /\ Len(rewards) = Len(r.pre.rewards) + 1
  /\ \A i \in 1..Len(r.pre.rewards) : rewards[i] = r.pre.rewards[i]
  /\ LET reward == rewards[Len(rewards)] IN
       /\ reward.userId = r.tok.userId /\ reward.type = "task_completion"
       /\ reward.xpAmount = PreTask(r)[1].xpReward
       /\ reward.bdagAmount = PreTask(r)[1].bdagReward

\* C13: a progress update with progress >= maxProgress for a user task that is
\* already completed stores another reward record and credits the task's
\* xpReward and bdagReward to the user again
C13_CompletionRepeats ==
  \A s \in Slots :
    LET r == reqs[s] IN
    (Updated(r) /\ Completes(r) /\ PreUserTask(r)[1].status = "completed")
    => /\ RewardStored(r)
       /\ LET before == PreUser(r)[1]
              after == getUser(r.tok.userId)[1]
              task == PreTask(r)[1]
          IN  /\ after.xp = Plus(before.xp, task.xpReward)
              /\ after.weeklyXp = Plus(before.weeklyXp, task.xpReward)
              /\ after.bdagBalance =
                   toString(Plus(parseFloat(before.bdagBalance),
                                 parseFloat(task.bdagReward)))

\* u3 has completed task 1 a second time and holds twice its reward
C13_Witness ==
  \E s \in Slots :
    /\ Updated(reqs[s]) /\ Completes(reqs[s])
    /\ PreUserTask(reqs[s])[1].status = "completed"
    /\ reqs[s].tok.userId = "u3"
    /\ Len(rewards) = 2
    /\ getUser("u3")[1].xp = Num(600)
    /\ getUser("u3")[1].bdagBalance = Str(300, 0)

\* a field the registration body left out, read as the schema's default
OrDefault(x, default) == IF x.k = "undefined" THEN default ELSE x

\* C14: a progress update stores the client's progress; when it reaches
\* maxProgress and the task exists the user task is completed, exactly one
\* task_completion reward with the task's xpReward and bdagReward is stored and
\* the user's xp and weeklyXp grow by xpReward and bdagBalance by bdagReward;
\* below maxProgress no reward is stored and the user is unchanged
C14_ProgressUpdate ==
  \A s \in Slots :
    LET r == reqs[s] IN
    Updated(r) =>
      LET userTask == Filter(userTasks, LAMBDA ut : ut.id = r.arg.userTaskId)[1]
          before == PreUser(r)[1]
          after == getUser(r.tok.userId)[1]
          task == PreTask(r)[1]
      IN
      /\ userTask.progress = r.arg.progress
      /\ IF Completes(r)
         THEN /\ userTask.status = "completed"
              /\ RewardStored(r)
              /\ after.xp = Plus(OrDefault(before.xp, Num(0)), task.xpReward)
              /\ after.weeklyXp = Plus(OrDefault(before.weeklyXp, Num(0)), task.xpReward)
              /\ after.bdagBalance =
                   toString(Plus(parseFloat(OrDefault(before.bdagBalance, Str(0, 0))),
                                 parseFloat(task.bdagReward)))
         ELSE /\ rewards = r.pre.rewards
              /\ users = r.pre.users

\* C15: a market for which no prediction is stored, and a market whose
\* totalPool is zero, has yesPercentage "50.00" and noPercentage "50.00"
C15_NoPredictionsEvenOdds ==
  \A i \in 1..Len(predictionMarkets) :
    LET market == predictionMarkets[i] IN
    (getPredictionsByMarket(market.id) = <<>> \/ market.totalPool = Str(0, 0))
    => market.yesPercentage = Fixed2(5000) /\ market.noPercentage = Fixed2(5000)

\* the sum of the amounts of a list of predictions, in hundredths
RECURSIVE CentsSum(_)
CentsSum(list) ==
  IF list = <<>> THEN 0 ELSE Cents(Head(list).amount) + CentsSum(Tail(list))
\* 100 * part / total to two decimals, halves rounded up
ExactPercentage(part, total) == Fixed2((20000 * part + total) \div (2 * total))
\* request r placed a prediction on a market the store holds
Placed(r) ==
  /\ r.kind = Predictions /\ r.pc = 0 /\ r.status = 200
  /\ getPredictionMarket(r.arg.marketId) # <<>>
\* the statistics a market record holds
Statistics(market) ==
  [totalPool |-> market.totalPool, participantCount |-> market.participantCount,
   yesPercentage |-> market.yesPercentage, noPercentage |-> market.noPercentage]

\* C16: once a prediction request on an existing market has succeeded, the
\* market's totalPool is the sum of the amounts of its stored predictions,
\* participantCount their number, each percentage 100 times its side's sum
\* over totalPool, and a price_update frame carries the stored values
C16_MarketStatistics ==
  /\ \A s \in Slots :
       Placed(reqs[s]) =>
         LET market == getPredictionMarket(reqs[s].arg.marketId)[1]
             list == getPredictionsByMarket(market.id)
             total == CentsSum(list)
         IN  /\ market.totalPool = Str(total, 2)
             /\ market.participantCount = Num(Len(list))
             /\ total > 0 =>
                  /\ market.yesPercentage =
                       ExactPercentage(CentsSum(Filter(list, LAMBDA p : p.prediction)), total)
                  /\ market.noPercentage =
                       ExactPercentage(CentsSum(Filter(list, LAMBDA p : ~p.prediction)), total)
  /\ \A c \in Conns : \A frame \in FramesSent(c) :
       frame.type = "price_update" =>
         /\ c \in wsClients /\ "markets" \in rooms[c]
         /\ frame.data = [marketId |-> frame.data.marketId] @@
                         Statistics(getPredictionMarket(frame.data.marketId)[1])

\* the predictions of list in the order given by the permutation p
Reordered(list, p) == [i \in 1..Len(list) |-> list[p[i]]]

\* C17: the statistics a market holds after its predictions were placed are
\* those any other order of the same predictions gives (totalPool > 0)
C17_OrderIndependent ==
  \A s \in Slots :
    Placed(reqs[s]) =>
      LET market == getPredictionMarket(reqs[s].arg.marketId)[1]
          list == getPredictionsByMarket(market.id)
      IN  \A p \in Permutations(1..Len(list)) :
            LessThan(Zero, SumAmounts(Reordered(list, p)))
            => Statistics(market) = marketStatistics(Reordered(list, p))

CreateMarket == "POST /api/prediction-markets"
CreateTask == "POST /api/tasks"
\* the roles the statement lets create what request r asks for
Permitted(r) ==
  IF r.kind = CreateMarket THEN r.tok.role \in {"premium", "validator"}
  ELSE r.tok.role = "validator"

\* C18: a market is created only for a token whose role is premium or
\* validator and a task only for role validator; any other creation request
\* is answered 403, leaves markets and tasks as they were and sends no frame
C18_RoleGating ==
  \A s \in Slots :
    LET r == reqs[s] IN
    (/\ r.kind \in {CreateMarket, CreateTask} /\ r.pc = 0 /\ r.status # 0
     /\ lastOp.op = r.kind /\ lastOp.target = s
     /\ ~Permitted(r))
    => /\ r.status = 403
       /\ predictionMarkets = r.pre.predictionMarkets
       /\ tasks = r.pre.tasks
       /\ sentNow = NoFrames

Wallet == "PATCH /api/user/wallet"
StartTask == "POST /api/tasks/:taskId/start"
\* what request r refers to by id is not in the store
Missing(r) ==
  CASE r.kind = Wallet -> PreUser(r) = <<>>
    [] r.kind = Predictions -> r.arg.valid /\ PreUser(r) = <<>>
    [] r.kind = StartTask -> Filter(r.pre.tasks, LAMBDA t : t.id = r.arg.taskId) = <<>>
    [] r.kind = Progress -> PreUserTask(r) = <<>>
    [] OTHER -> FALSE

\* C19: wallet update, prediction placement, task start and progress update
\* answer 404 when the user, task or user task they refer to does not exist
C19_NotFound ==
  \A s \in Slots :
    LET r == reqs[s] IN
    (r.pc = 0 /\ r.status # 0 /\ r.alone /\ Missing(r)) => r.status = 404

\* where the user with this id sits in the store
Position(id) == CHOOSE k \in 1..Len(users) : users[k].id = id
\* descending weeklyXp, equal weeklyXp in store order
Descending(list) ==
  \A i, j \in 1..Len(list) :
    i < j => /\ ~LessThan(list[i].weeklyXp, list[j].weeklyXp)
             /\ list[i].weeklyXp = list[j].weeklyXp
                  => Position(list[i].id) < Position(list[j].id)

\* C20: getLeaderboard(limit) and every leaderboard_update frame list at most
\* limit users, in descending order of weeklyXp, equal weeklyXp in the order in
\* which the users were inserted
C20_LeaderboardOrder ==
  /\ \A limit \in 0..(Len(users) + 1) :
       /\ Len(getLeaderboard(limit)) <= limit
       /\ Descending(getLeaderboard(limit))
  /\ \A c \in Conns : \A frame \in FramesSent(c) :
       frame.type = "leaderboard_update" =>
         /\ Len(frame.data) <= 100
         /\ Descending(frame.data)

\* ------------------------------------------------- claims on the records
Ids(map) == {map[i].id : i \in 1..Len(map)}

\* every id of the Map is still there, at its place, with every record that
\* is not in changed as it was
Kept(map, after, changed) ==
  /\ Len(after) >= Len(map)
  /\ \A i \in 1..Len(map) :
       /\ after[i].id = map[i].id
       /\ map[i].id \notin changed => after[i] = map[i]

\* after is map with exactly the fields of updates set in the record id
Updated1(map, after, id, updates) ==
  /\ Len(after) = Len(map)
  /\ \A i \in 1..Len(map) :
       IF map[i].id # id THEN after[i] = map[i]
       ELSE /\ DOMAIN after[i] = DOMAIN map[i] \cup DOMAIN updates
            /\ \A f \in DOMAIN after[i] :
                 after[i][f] = IF f \in DOMAIN updates THEN updates[f] ELSE map[i][f]

\* updates as the routes supply them
UserUpdates ==
  { [walletAddress |-> "0xabc"], [bdagBalance |-> Str(5, 0)],
    [xp |-> Num(300), weeklyXp |-> Num(300), bdagBalance |-> Str(200, 0)] }
MarketUpdates == { marketStatistics(predictions) }
UserTaskUpdates ==
  { [progress |-> Num(3), status |-> "completed", completedAt |-> "Date"],
    [progress |-> Num(1), status |-> "in_progress", completedAt |-> "null"] }

ShallowMerges ==
  /\ \A id \in Ids(users), updates \in UserUpdates :
       Updated1(users, updateUser(id, updates), id, updates)
  /\ \A id \in Ids(predictionMarkets), updates \in MarketUpdates :
       Updated1(predictionMarkets, updatePredictionMarket(id, updates), id, updates)
  /\ \A id \in Ids(userTasks), updates \in UserTaskUpdates :
       Updated1(userTasks, updateUserTask(id, updates), id, updates)

\* a step of a handler touches at most the record of its own user, market
\* and user task, and deletes none
NothingDeleted ==
  \A s \in Slots :
    lastOp'.target = s =>
      /\ Kept(users, users', {reqs'[s].tok.userId})
      /\ Kept(predictionMarkets, predictionMarkets', {reqs'[s].arg.marketId})
      /\ Kept(userTasks, userTasks', {reqs'[s].arg.userTaskId})
      /\ Kept(predictions, predictions', {})
      /\ Kept(tasks, tasks', {})
      /\ Kept(rewards, rewards', {})

\* C21: no record is ever deleted (the ids of every store only grow) and an
\* update sets exactly the fields it supplies, in the one record it names,
\* leaving every other field and every other record as it was
C21_ShallowMerge == [](ShallowMerges) /\ [][NothingDeleted]_vars

\* u3 has started task 1, advanced it and placed a bet: a user task, a user
\* and a market have each been updated
C21_Witness ==
  /\ userTasks # <<>> /\ userTasks[1].progress # Num(0)
  /\ predictionMarkets[1] # sampleMarket
  /\ users[4] # registered("u3", "validator")
  /\ Len(predictions) = 1

\* the prediction request of slot s has just been answered with a rejection
Rejected(r) ==
  /\ r.kind = "POST /api/predictions"
  /\ r.pc = 0
  /\ r.message \in {"ZodError", "User not found", "Insufficient BDAG balance"}

\* C22: the step that rejects a prediction request (body fails validation,
\* acting user not found, amount greater than the balance) stores no
\* prediction, changes no user and no market and sends no frame; a rejected
\* request that ran with no other request in flight leaves predictions,
\* users and markets as it found them
C22_RejectedStoresNothing ==
  [][\A s \in Slots :
       lastOp'.target = s /\ Rejected(reqs'[s]) =>
         /\ predictions' = predictions
         /\ users' = users
         /\ predictionMarkets' = predictionMarkets
         /\ sentNow' = NoFrames
         /\ reqs'[s].alone =>
              /\ predictions' = reqs'[s].pre.predictions
              /\ users' = reqs'[s].pre.users
              /\ predictionMarkets' = reqs'[s].pre.predictionMarkets]_vars

\* a request was rejected for its amount after an earlier one was accepted
C22_Witness ==
  /\ \E s \in Slots : Rejected(reqs[s]) /\ reqs[s].status = 400
                        /\ reqs[s].message = "Insufficient BDAG balance"
  /\ Len(predictions) = 1

\* C23: the store holds at most one user task per (userId, taskId) pair,
\* whatever start requests were made and however they interleaved
C23_StartedOnce ==
  \A i, j \in 1..Len(userTasks) :
    userTasks[i].userId = userTasks[j].userId
      /\ userTasks[i].taskId = userTasks[j].taskId => i = j

\* the user task named by request r is in map and belongs to the requester
Owns(map, r) ==
  \E i \in 1..Len(map) :
    map[i].id = r.arg.userTaskId /\ map[i].userId = r.tok.userId

\* C24: a step of a progress update changes no user task but the one the
\* request names, and only when it belongs to the requester; a request
\* naming a user task of another user, or an unknown id, changes no user
\* task, reward or user and is answered 404 "User task not found"
C24_OwnUserTaskOnly ==
  [][\A s \in Slots :
       lastOp'.target = s /\ reqs'[s].kind = "PATCH /api/user-tasks/:userTaskId" =>
         /\ \A i \in 1..Len(userTasks) :
              userTasks'[i] # userTasks[i] =>
                /\ userTasks[i].id = reqs'[s].arg.userTaskId
                /\ userTasks[i].userId = reqs'[s].tok.userId
         /\ ~Owns(userTasks', reqs'[s]) =>
              /\ userTasks' = userTasks /\ rewards' = rewards /\ users' = users
              /\ reqs'[s].pc = 0 =>
                   /\ reqs'[s].status = 404
                   /\ reqs'[s].message = "User task not found"]_vars

\* a progress update naming another user's user task has been answered
C24_Witness ==
  \E s \in Slots :
    /\ reqs[s].kind = "PATCH /api/user-tasks/:userTaskId"
    /\ reqs[s].pc = 0 /\ reqs[s].status = 404
    /\ \E i \in 1..Len(userTasks) :
         /\ userTasks[i].id = reqs[s].arg.userTaskId
         /\ userTasks[i].userId # reqs[s].tok.userId
         /\ userTasks[i].progress = Num(0)

\* C26: a user task whose status is "completed" keeps that status and a
\* non-null completedAt through every later step
C26_CompletedStays ==
  [][\A i \in 1..Len(userTasks) :
       userTasks[i].status = "completed" =>
         /\ userTasks'[i].status = "completed"
         /\ userTasks'[i].completedAt # "null"]_vars

\* the users the server starts with
InitialUsers ==
  <<sampleUser, registered("u1", "basic"), registeredBare("u2"),
    registered("u3", "validator"), registered("u4", "premium")>>

\* the sum of xpAmount over the task_completion rewards of user u
RECURSIVE XpRewarded(_, _)
XpRewarded(list, u) ==
  IF list = <<>> THEN Num(0)
  ELSE IF list[Len(list)].userId = u /\ list[Len(list)].type = "task_completion"
  THEN Plus(XpRewarded(SubSeq(list, 1, Len(list) - 1), u), list[Len(list)].xpAmount)
  ELSE XpRewarded(SubSeq(list, 1, Len(list) - 1), u)

Quiescent == \A s \in Slots : reqs[s].pc = 0

\* C28: once no request is in flight, the xp of every user that started
\* with a number for xp is that number plus the xpAmount of each of that
\* user's stored task_completion rewards
C28_LedgerConsistent ==
  Quiescent =>
    \A i \in 1..Len(InitialUsers) :
      InitialUsers[i].xp.k = "number" =>
        users[i].xp = Plus(InitialUsers[i].xp, XpRewarded(rewards, users[i].id))

\* C30: every user that started with a balance of zero or more has one in
\* every reachable state, also after a prediction and a task completion of
\* that user have interleaved
C30_BalanceNotNegative ==
  \A i \in 1..Len(InitialUsers) :
    AtLeast(parseFloat(InitialUsers[i].bdagBalance), Num(0)) =>
      AtLeast(parseFloat(users[i].bdagBalance), Num(0))

\* a prediction and a completing progress update of u3 were in flight
\* together and both have been answered 200
C30_Witness ==
  /\ \E s, t \in Slots :
       /\ reqs[s].kind = "POST /api/predictions"
       /\ reqs[t].kind = "PATCH /api/user-tasks/:userTaskId"
       /\ reqs[s].tok.userId = reqs[t].tok.userId
       /\ reqs[s].pc = 0 /\ reqs[s].status = 200 /\ ~reqs[s].alone
       /\ reqs[t].pc = 0 /\ reqs[t].status = 200 /\ ~reqs[t].alone
  /\ Len(rewards) = 1 /\ Len(predictions) = 1

\* ------------------------------------------------ claims on the channels
\* C29: a step passes a frame to ws.send only on a connection whose channel
\* is open during that step (no sending step changes readyState); the
\* callback of a snapshot query whose connection has left OPEN since its
\* join_room sends nothing
C29_SendOnlyWhenOpen ==
  /\ \A c \in Conns : sentNow[c] # <<>> => readyState[c] = "OPEN"
  /\ (lastOp.op = "snapshot" /\ readyState[lastOp.conn] # "OPEN") => sentNow = NoFrames

\* the snapshot query of a join_room resolved after its connection closed
C29_Witness ==
  /\ lastOp.op = "snapshot"
  /\ lastOp.target \in requested[lastOp.conn]
  /\ readyState[lastOp.conn] = "CLOSED"
  /\ sentNow = NoFrames

\* ------------------------------------------------ claims on registration
\* C27: no two stored users have the same email address, whatever
\* registration requests were made and however they overlapped
C27_EmailUnique ==
  \A i, j \in 1..Len(users) : users[i].email = users[j].email => i = j

\* ----------------------------------------------- claims on the client hook
\* C25: a close that follows maxReconnectAttempts or more closes with no
\* open in between schedules no reconnect, and an open sets
\* reconnectAttempts to 0
C25_ReconnectBounded ==
  [][/\ (closes >= maxReconnectAttempts /\ socketRef' = "closed" /\ socketRef # "closed")
          => hookOp' = "close"
     /\ hookOp' = "open" => reconnectAttempts' = 0]_vars
====
